---- MODULE Spec2Model ----
(***************************************************************************)
(* zk-vault: the Merkle tree over field elements (src/src/merkle/tree.rs)  *)
(* and its Poseidon hasher (src/src/merkle/hash.rs).                       *)
(*                                                                         *)
(* Field elements are the integers 0 .. FieldModulus-1 of a scaled-down    *)
(* prime field; their canonical encoding is FrBytes little-endian bytes.   *)
(* hash_two is an idealised (collision-free) two-to-one hash whose outputs *)
(* are never a leaf value.  Rust vectors are 0-based; a vector v is the    *)
(* sequence whose element v[i] is At(v, i).                                *)
(***************************************************************************)
EXTENDS Integers, Sequences, FiniteSets, TLC

\* ------------------------------------------------------------------ bounds
\* most runs of a slot's setup (failed ones included) after which init is still called
MaxSetups == 2
\* longest sibling list of a path handed to a membership circuit on its own
MaxPathLen == 2
\* longest leaf sequence handed to MerkleTree::new
MaxLeaves == 5
\* leaf values are Fr::from(v) for v in 0 .. MaxLeafVal
MaxLeafVal == 1
\* order of the scaled field (a prime below 256^3)
FieldModulus == 16777213
\* width in bytes of the canonical encoding of a scaled field element
FrBytes == 4
\* largest depth / num_leaves cell written into a corrupted tree file
MaxCell == 3

\* ------------------------------------------------------- program constants
MAX_DEPTH == 30

\* ----------------------------------------------------------------- helpers
At(v, i) == v[i + 1]

Pow2(k) == 2 ^ k

RECURSIVE ilog2(_)
ilog2(n) == IF n <= 1 THEN 0 ELSE 1 + ilog2(n \div 2)

is_multiple_of(n, k) == n % k = 0

Fr == 0 .. (FieldModulus - 1)

LeafValues == 0 .. MaxLeafVal

\* Option<T>: None is the empty sequence, Some(v) the one-element sequence
None == << >>
Some(v) == << v >>
is_some(o) == Len(o) = 1
unwrap(o) == o[1]

\* ------------------------------------------------------------ hash.rs
\* PoseidonHasher::hash_two as an injective pairing of (left, right), shifted
\* past the leaf values so that no hash output equals a leaf or the padding.
hash_two(left, right) ==
    (((left + right) * (left + right + 1)) \div 2 + right + MaxLeafVal + 2) % FieldModulus

\* ------------------------------------------------- canonical encoding of Fr
\* Fr::serialize_compressed: FrBytes little-endian bytes of the residue
RECURSIVE le_bytes(_, _)
le_bytes(v, w) == IF w = 0 THEN << >> ELSE << v % 256 >> \o le_bytes(v \div 256, w - 1)

serialize_compressed(f) == le_bytes(f, FrBytes)

\* the bytes, read as a little-endian integer, are below the modulus
RECURSIVE le_less(_, _, _)
le_less(b, m, k) ==
    IF k = 0 THEN FALSE
    ELSE IF b[k] < m[k] THEN TRUE
    ELSE IF b[k] > m[k] THEN FALSE
    ELSE le_less(b, m, k - 1)

is_canonical(b) == le_less(b, le_bytes(FieldModulus, FrBytes), FrBytes)

RECURSIVE le_value(_)
le_value(b) == IF b = << >> THEN 0 ELSE b[1] + 256 * le_value(Tail(b))

\* Fr::deserialize_compressed: Some(value) for a canonical encoding, else None
deserialize_compressed(b) == IF is_canonical(b) THEN Some(le_value(b)) ELSE None

\* ------------------------------------------------------------ tree.rs
\* MerklePath::compute_root
RECURSIVE fold_path(_, _, _, _)
fold_path(current, siblings, indices, k) ==
    IF k > Len(siblings) \/ k > Len(indices) THEN current
    ELSE fold_path(IF indices[k] THEN hash_two(siblings[k], current)
                                 ELSE hash_two(current, siblings[k]),
                   siblings, indices, k + 1)

\* compute_root hashing (current, sibling) at every level, whatever the index bit
compute_root_ignoring_indices(p) ==
    fold_path(p.leaf, p.siblings, [k \in 1 .. Len(p.indices) |-> FALSE], 1)

compute_root(p) == fold_path(p.leaf, p.siblings, p.indices, 1)

\* MerklePath::verify
verify(p, r) == compute_root(p) = r

\* compute_depth taking the logarithm of n instead of n - 1
compute_depth_floor(n) == IF n <= 1 THEN 1 ELSE ilog2(n) + 1

\* MerkleTree::compute_depth
compute_depth(n) == IF n <= 1 THEN 1 ELSE ilog2(n - 1) + 1

\* HashMap::insert on the sidecar map (a function from encodings to indices)
insert(m, key, i) == [x \in (DOMAIN m) \cup {key} |-> IF x = key THEN i ELSE m[x]]

EmptyMap == [x \in {} |-> 0]

\* HashMap::get(..).copied()
get(m, key) == IF key \in DOMAIN m THEN Some(m[key]) ELSE None

\* empty_tree counting its single zero node as a leaf
empty_tree_one_leaf ==
    [nodes |-> << 0 >>, depth |-> 0, num_leaves |-> 1, leaf_index |-> EmptyMap]

\* MerkleTree::empty_tree
empty_tree == [nodes |-> << 0 >>, depth |-> 0, num_leaves |-> 0, leaf_index |-> EmptyMap]

\* build_nodes hashing the right child before the left one
RECURSIVE build_nodes_children_swapped(_, _)
build_nodes_children_swapped(nodes, i) ==
    IF i < 0 THEN nodes
    ELSE build_nodes_children_swapped(
             [nodes EXCEPT ![i + 1] = hash_two(At(nodes, 2 * i + 2), At(nodes, 2 * i + 1))],
             i - 1)

\* with_hasher, lines 114-119: internal nodes bottom-up, i from leaf_start-1 to 0
RECURSIVE build_nodes(_, _)
build_nodes(nodes, i) ==
    IF i < 0 THEN nodes
    ELSE build_nodes([nodes EXCEPT ![i + 1] = hash_two(At(nodes, 2 * i + 1), At(nodes, 2 * i + 2))],
                     i - 1)

\* the leaf index keeping the first index of a value it meets again
RECURSIVE build_leaf_index_first_wins(_, _, _, _)
build_leaf_index_first_wins(m, padded_leaves, num_leaves, i) ==
    IF i >= Len(padded_leaves) THEN m
    ELSE build_leaf_index_first_wins(
             IF i < num_leaves /\ serialize_compressed(At(padded_leaves, i)) \notin DOMAIN m
                THEN insert(m, serialize_compressed(At(padded_leaves, i)), i)
                ELSE m,
             padded_leaves, num_leaves, i + 1)

\* with_hasher, lines 121-129: the leaf index over the real leaves, in order
RECURSIVE build_leaf_index(_, _, _, _)
build_leaf_index(m, padded_leaves, num_leaves, i) ==
    IF i >= Len(padded_leaves) THEN m
    ELSE build_leaf_index(IF i < num_leaves
                             THEN insert(m, serialize_compressed(At(padded_leaves, i)), i)
                             ELSE m,
                          padded_leaves, num_leaves, i + 1)

\* MerkleTree::with_hasher (MerkleTree::new passes the default hasher)
with_hasher(leaves) ==
    IF leaves = << >> THEN empty_tree
    ELSE LET num_leaves == Len(leaves)
             depth == compute_depth(num_leaves)
             padded_size == Pow2(depth)
             padded_leaves == [i \in 1 .. padded_size |->
                                  IF i <= num_leaves THEN leaves[i] ELSE 0]
             total_nodes == 2 * padded_size - 1
             leaf_start == padded_size - 1
             zeroed == [i \in 1 .. total_nodes |-> 0]
             copied == [i \in 1 .. total_nodes |->
                           IF i > leaf_start THEN padded_leaves[i - leaf_start]
                           ELSE zeroed[i]]
         IN [nodes |-> build_nodes(copied, leaf_start - 1),
             depth |-> depth,
             num_leaves |-> num_leaves,
             leaf_index |-> build_leaf_index(EmptyMap, padded_leaves, num_leaves, 0)]

\* MerkleTree::root
root(t) == At(t.nodes, 0)

\* find_leaf scanning every slot of the leaf level, padding included
find_leaf_any_slot(t, leaf) ==
    LET leaf_start == Pow2(t.depth) - 1
        hits == {i \in 0 .. (Len(t.nodes) - 1 - leaf_start) : At(t.nodes, leaf_start + i) = leaf}
    IN IF hits = {} THEN None ELSE Some(CHOOSE i \in hits : \A j \in hits : j <= i)

\* MerkleTree::find_leaf
find_leaf(t, leaf) == get(t.leaf_index, serialize_compressed(leaf))

\* MerkleTree::contains
contains(t, leaf) == is_some(find_leaf(t, leaf))

\* walk taking the odd node indices for right children
RECURSIVE walk_odd_is_right(_, _, _, _)
walk_odd_is_right(nodes, node_index, siblings, indices) ==
    IF node_index <= 0 THEN [panicked |-> FALSE, siblings |-> siblings, indices |-> indices]
    ELSE LET is_right == ~is_multiple_of(node_index, 2)
             sibling_index == IF is_right THEN node_index - 1 ELSE node_index + 1
         IN IF sibling_index >= Len(nodes)
               THEN [panicked |-> TRUE, siblings |-> siblings, indices |-> indices]
               ELSE walk_odd_is_right(nodes, (node_index - 1) \div 2,
                                      Append(siblings, At(nodes, sibling_index)),
                                      Append(indices, is_right))

\* MerkleTree::get_path, lines 205-218: the walk from the leaf's node to the root.
\* Indexing past the end of nodes panics.
RECURSIVE walk(_, _, _, _)
walk(nodes, node_index, siblings, indices) ==
    IF node_index <= 0 THEN [panicked |-> FALSE, siblings |-> siblings, indices |-> indices]
    ELSE LET is_right == is_multiple_of(node_index, 2)
             sibling_index == IF is_right THEN node_index - 1 ELSE node_index + 1
         IN IF sibling_index >= Len(nodes)
               THEN [panicked |-> TRUE, siblings |-> siblings, indices |-> indices]
               ELSE walk(nodes, (node_index - 1) \div 2,
                         Append(siblings, At(nodes, sibling_index)),
                         Append(indices, is_right))

\* get_path refusing only the indices past the padded leaf level
get_path_within_padded(t, leaf_index) ==
    IF leaf_index >= Pow2(t.depth) \/ t.num_leaves = 0 THEN [panicked |-> FALSE, value |-> None]
    ELSE LET node_index == (Pow2(t.depth) - 1) + leaf_index
             w == walk(t.nodes, node_index, << >>, << >>)
         IN [panicked |-> FALSE,
             value |-> Some([siblings |-> w.siblings, indices |-> w.indices,
                             leaf |-> At(t.nodes, node_index)])]

\* MerkleTree::get_path: [panicked, value], value an Option<MerklePath>
get_path(t, leaf_index) ==
    IF leaf_index >= t.num_leaves THEN [panicked |-> FALSE, value |-> None]
    ELSE LET padded_size == Pow2(t.depth)
             leaf_start == padded_size - 1
             node_index == leaf_start + leaf_index
         IN IF node_index >= Len(t.nodes) THEN [panicked |-> TRUE, value |-> None]
            ELSE LET w == walk(t.nodes, node_index, << >>, << >>)
                 IN IF w.panicked THEN [panicked |-> TRUE, value |-> None]
                    ELSE [panicked |-> FALSE,
                          value |-> Some([siblings |-> w.siblings, indices |-> w.indices,
                                          leaf |-> At(t.nodes, node_index)])]

\* MerkleTree::get_path_for_leaf
get_path_for_leaf(t, leaf) ==
    LET index == find_leaf(t, leaf)
    IN IF is_some(index) THEN get_path(t, unwrap(index))
       ELSE [panicked |-> FALSE, value |-> None]

\* bincode::serialize of MerkleTreeData {nodes, depth, num_leaves}: the node count,
\* the nodes' encodings one after the other, then depth and num_leaves (each
\* integer field one cell)
RECURSIVE concat(_)
concat(ss) == IF ss = << >> THEN << >> ELSE Head(ss) \o concat(Tail(ss))

bincode_serialize(data) ==
    << Len(data.nodes) >> \o concat(data.nodes) \o << data.depth, data.num_leaves >>

\* bincode::deserialize: None (an error) when the input ends before the record does
bincode_deserialize(bytes) ==
    IF Len(bytes) < 1 THEN None
    ELSE LET n == bytes[1]
         IN IF Len(bytes) < 1 + n * FrBytes + 2 THEN None
            ELSE Some([nodes |-> [j \in 1 .. n |->
                                     SubSeq(bytes, 2 + (j - 1) * FrBytes, 1 + j * FrBytes)],
                       depth |-> bytes[2 + n * FrBytes],
                       num_leaves |-> bytes[3 + n * FrBytes]])

\* to_bytes writing num_leaves into the depth field and depth into num_leaves
to_bytes_swapped_header(t) ==
    bincode_serialize([nodes |-> [j \in 1 .. Len(t.nodes) |-> serialize_compressed(t.nodes[j])],
                       depth |-> t.num_leaves,
                       num_leaves |-> t.depth])

\* MerkleTree::to_bytes
to_bytes(t) ==
    bincode_serialize([nodes |-> [j \in 1 .. Len(t.nodes) |-> serialize_compressed(t.nodes[j])],
                       depth |-> t.depth,
                       num_leaves |-> t.num_leaves])

\* from_bytes, lines 262-273: the leaf index rebuilt from the leaf level
RECURSIVE rebuild_leaf_index(_, _, _, _, _)
rebuild_leaf_index(m, nodes, leaf_start, num_leaves, i) ==
    IF i >= num_leaves THEN m
    ELSE rebuild_leaf_index(insert(m, serialize_compressed(At(nodes, leaf_start + i)), i),
                            nodes, leaf_start, num_leaves, i + 1)

\* MerkleTree::from_bytes: status "Ok" with the tree, "Err", or "panic"
from_bytes(bytes) ==
    LET decoded == bincode_deserialize(bytes)
    IN IF ~is_some(decoded) THEN [status |-> "Err", tree |-> empty_tree]
       ELSE LET data == unwrap(decoded)
                parsed == [j \in 1 .. Len(data.nodes) |-> deserialize_compressed(data.nodes[j])]
            IN IF \E j \in 1 .. Len(parsed) : ~is_some(parsed[j])
                  THEN [status |-> "panic", tree |-> empty_tree]
                  ELSE LET nodes == [j \in 1 .. Len(parsed) |-> unwrap(parsed[j])]
                           padded_size == Pow2(data.depth)
                           leaf_start == padded_size - 1
                       IN IF data.num_leaves > 0 /\ leaf_start + data.num_leaves - 1 >= Len(nodes)
                             THEN [status |-> "panic", tree |-> empty_tree]
                             ELSE [status |-> "Ok",
                                   tree |-> [nodes |-> nodes,
                                             depth |-> data.depth,
                                             num_leaves |-> data.num_leaves,
                                             leaf_index |-> rebuild_leaf_index(
                                                 EmptyMap, nodes, leaf_start,
                                                 data.num_leaves, 0)]]

\* ----------------------------------------------------------------- state
VARIABLES
    leaves,     \* the leaf vector handed to MerkleTree::new
    built,      \* MerkleTree::new has returned
    tree,       \* the MerkleTree it returned
    pathCall,   \* the last get_path call on tree and its outcome
    tampered,   \* a copy of that path with one sibling or one index changed
    findCall,   \* the last find_leaf / get_path_for_leaf call on tree
    bytes,      \* a tree file: the output of to_bytes, possibly damaged
    damage,     \* what was done to the file after to_bytes wrote it
    restored,   \* the outcome of from_bytes on that file
    sizing,     \* num_leaves and depth of a tree built from a huge leaf vector
    prover,     \* the Prover returned by Prover::setup, if it ran
    verifier,   \* the Verifier built from the verifying key of that setup
    proofCall,  \* the last Prover::prove / prove_with_path call and its outcome
    verifyCall, \* the last Verifier::verify / verify_with_root call and its outcome
    COUNTRY_PROVER, \* the static slot of the country prover
    EMAIL_PROVER,   \* the static slot of the email prover
    call,       \* the last call of a binding and what it returned
    circuitCall,    \* a membership circuit, its path and root, and what became of them
    mutex,      \* the mutex of each slot: its holder and whether it is poisoned
    threads,    \* the binding call each thread of the host is in, or was last in
    ghost       \* per slot, what its setups and readiness answers have been

vars == << leaves, built, tree, pathCall, tampered, findCall, bytes, damage, restored, sizing,
           prover, verifier, proofCall, verifyCall, COUNTRY_PROVER, EMAIL_PROVER, call,
           circuitCall, mutex, threads, ghost >>

\* the state outside the tree and its call records
hostVars == << prover, verifier, proofCall, verifyCall, COUNTRY_PROVER, EMAIL_PROVER, call,
               circuitCall, mutex, threads, ghost >>

NoPath == [siblings |-> << >>, indices |-> << >>, leaf |-> 0]

IdlePathCall == [called |-> FALSE, index |-> 0, panicked |-> FALSE, value |-> None]
IdleTampered == [called |-> FALSE, kind |-> "none", level |-> 0, path |-> NoPath]
IdleFindCall == [called |-> FALSE, leaf |-> 0, index |-> None, panicked |-> FALSE, path |-> None]
IdleRestored == [status |-> "none", tree |-> empty_tree]
IdleSizing == [num_leaves |-> 0, depth |-> 0]
IdleProofCall == [called |-> FALSE, op |-> "none", leaf |-> 0, path |-> NoPath,
                  status |-> "none", snark_ran |-> FALSE, value |-> None]
IdleVerifyCall == [called |-> FALSE, op |-> "none", presented |-> None, expected |-> 0,
                   pairing_ran |-> FALSE, result |-> "none"]
IdleCall == [op |-> "none", ready |-> FALSE, before |-> None, args |-> << >>,
             ran_setup |-> FALSE, returned |-> FALSE]
IdleCircuitCall == [path |-> NoPath, root |-> 0, synthesized |-> None, empty |-> None,
                    verified |-> None]

\* the threads of the host and the two slots
Threads == {1, 2}
Slots == {"country", "email"}

FreeMutex == [holder |-> None, poisoned |-> FALSE]
IdleThread == [pc |-> "idle", op |-> "none", slot |-> "none", args |-> << >>,
               pending |-> None, status |-> "none", value |-> FALSE, populated_before |-> FALSE]
NoHistory == [setups |-> 0, stored |-> 0, ready_seen |-> FALSE]

\* no setup has run, no proof was asked for, both slots hold None
HostIdle ==
    /\ prover = None
    /\ verifier = None
    /\ proofCall = IdleProofCall
    /\ verifyCall = IdleVerifyCall
    /\ COUNTRY_PROVER = None
    /\ EMAIL_PROVER = None
    /\ call = IdleCall
    /\ mutex = [s \in Slots |-> FreeMutex]
    /\ threads = [t \in Threads |-> IdleThread]
    /\ ghost = [s \in Slots |-> NoHistory]

\* leaf vectors of at most MaxLeaves leaves
RECURSIVE SeqsUpTo(_, _)
SeqsUpTo(S, n) ==
    IF n = 0 THEN {<< >>}
    ELSE LET shorter == SeqsUpTo(S, n - 1)
         IN shorter \cup {Append(q, x) : q \in {r \in shorter : Len(r) = n - 1}, x \in S}

LeafVectors == SeqsUpTo(LeafValues, MaxLeaves)

\* leaf counts around the largest permitted tree, too large to enumerate the nodes
HugeLeafCounts == {Pow2(MAX_DEPTH) - 1, Pow2(MAX_DEPTH), Pow2(MAX_DEPTH) + 1}

\* values looked up or substituted: every leaf value and one value that is no leaf
ForeignValue == MaxLeafVal + 1
ProbeValues == LeafValues \cup {ForeignValue}

\* no tree has been built
TreeIdle ==
    /\ built = FALSE
    /\ tree = empty_tree
    /\ pathCall = IdlePathCall
    /\ tampered = IdleTampered
    /\ findCall = IdleFindCall
    /\ bytes = << >>
    /\ damage = "none"
    /\ restored = IdleRestored
    /\ sizing = IdleSizing

Init ==
    /\ leaves \in LeafVectors
    /\ TreeIdle
    /\ HostIdle
    /\ circuitCall = IdleCircuitCall

\* ---------------------------------------------------------------- actions
\* MerkleTree::new(leaves)
New ==
    /\ ~built
    /\ built' = TRUE
    /\ tree' = with_hasher(leaves)
    /\ sizing' = IdleSizing
    /\ UNCHANGED << leaves, pathCall, tampered, findCall, bytes, damage, restored >>
    /\ UNCHANGED hostVars

\* MerkleTree::new on a vector of n leaves, n near 2^MAX_DEPTH: lines 92-97 and
\* 131-137 decide num_leaves and depth from the length alone
NewHuge(n) ==
    /\ ~built
    /\ sizing' = [num_leaves |-> n, depth |-> compute_depth(n)]
    /\ UNCHANGED << leaves, built, tree, pathCall, tampered, findCall, bytes, damage, restored >>
    /\ UNCHANGED hostVars

\* The tree is immutable once built (every operation below takes &self), so the
\* outcome of a call does not depend on the calls before it: each behaviour
\* follows one chain of calls on the tree it built.
Quiet ==
    built /\ ~pathCall.called /\ ~findCall.called /\ bytes = << >> /\ restored = IdleRestored

\* tree.get_path(i)
GetPath(i) ==
    /\ Quiet
    /\ LET r == get_path(tree, i)
       IN pathCall' = [called |-> TRUE, index |-> i, panicked |-> r.panicked, value |-> r.value]
    /\ UNCHANGED << leaves, built, tree, tampered, findCall, bytes, damage, restored, sizing >>
    /\ UNCHANGED hostVars

\* the running hash of compute_root before level k (k = 1 is the leaf)
current_at(p, k) == fold_path(p.leaf, SubSeq(p.siblings, 1, k - 1), SubSeq(p.indices, 1, k - 1), 1)

\* values written over a sibling at level k: the probe values and the running hash
Substitutes(p, k) == ProbeValues \cup {current_at(p, k)}

\* path.siblings[k-1] = x on the path last returned, x another field element
TamperSibling ==
    /\ pathCall.called /\ is_some(pathCall.value) /\ ~tampered.called
    /\ LET p == unwrap(pathCall.value)
       IN \E k \in 1 .. Len(p.siblings) :
             \E x \in Substitutes(p, k) \ {p.siblings[k]} :
                tampered' = [called |-> TRUE, kind |-> "sibling", level |-> k,
                             path |-> [p EXCEPT !.siblings[k] = x]]
    /\ UNCHANGED << leaves, built, tree, pathCall, findCall, bytes, damage, restored, sizing >>
    /\ UNCHANGED hostVars

\* path.indices[k-1] = !path.indices[k-1] on the path last returned
TamperIndex ==
    /\ pathCall.called /\ is_some(pathCall.value) /\ ~tampered.called
    /\ LET p == unwrap(pathCall.value)
       IN \E k \in 1 .. Len(p.indices) :
             tampered' = [called |-> TRUE, kind |-> "index", level |-> k,
                          path |-> [p EXCEPT !.indices[k] = ~@]]
    /\ UNCHANGED << leaves, built, tree, pathCall, findCall, bytes, damage, restored, sizing >>
    /\ UNCHANGED hostVars

\* tree.find_leaf(x) and tree.get_path_for_leaf(x)
FindLeaf(x) ==
    /\ Quiet
    /\ LET r == get_path_for_leaf(tree, x)
       IN findCall' = [called |-> TRUE, leaf |-> x, index |-> find_leaf(tree, x),
                       panicked |-> r.panicked, path |-> r.value]
    /\ UNCHANGED << leaves, built, tree, pathCall, tampered, bytes, damage, restored, sizing >>
    /\ UNCHANGED hostVars

\* tree.to_bytes()
ToBytes ==
    /\ Quiet
    /\ bytes' = to_bytes(tree)
    /\ UNCHANGED << leaves, built, tree, pathCall, tampered, findCall, damage, restored, sizing >>
    /\ UNCHANGED hostVars

\* damage to a stored tree file, one per file
Pristine == bytes # << >> /\ damage = "none" /\ restored = IdleRestored

\* the depth cell overwritten
DamageDepth(d) ==
    /\ Pristine /\ d # bytes[Len(bytes) - 1]
    /\ bytes' = [bytes EXCEPT ![Len(bytes) - 1] = d]
    /\ damage' = "depth"
    /\ UNCHANGED << leaves, built, tree, pathCall, tampered, findCall, restored, sizing >>
    /\ UNCHANGED hostVars

\* the num_leaves cell overwritten
DamageNumLeaves(n) ==
    /\ Pristine /\ n # bytes[Len(bytes)]
    /\ bytes' = [bytes EXCEPT ![Len(bytes)] = n]
    /\ damage' = "num_leaves"
    /\ UNCHANGED << leaves, built, tree, pathCall, tampered, findCall, restored, sizing >>
    /\ UNCHANGED hostVars

\* the last node removed from the nodes vector
DamageDropNode ==
    /\ Pristine /\ bytes[1] > 0
    /\ bytes' = << bytes[1] - 1 >> \o SubSeq(bytes, 2, 1 + (bytes[1] - 1) * FrBytes)
                    \o SubSeq(bytes, Len(bytes) - 1, Len(bytes))
    /\ damage' = "nodes"
    /\ UNCHANGED << leaves, built, tree, pathCall, tampered, findCall, restored, sizing >>
    /\ UNCHANGED hostVars

\* the most significant byte of node j set to 255: no canonical encoding
DamageNodeBytes(j) ==
    /\ Pristine /\ j \in 1 .. bytes[1]
    /\ bytes' = [bytes EXCEPT ![1 + j * FrBytes] = 255]
    /\ damage' = "encoding"
    /\ UNCHANGED << leaves, built, tree, pathCall, tampered, findCall, restored, sizing >>
    /\ UNCHANGED hostVars

\* the file cut short by one cell
DamageTruncate ==
    /\ Pristine
    /\ bytes' = SubSeq(bytes, 1, Len(bytes) - 1)
    /\ damage' = "truncated"
    /\ UNCHANGED << leaves, built, tree, pathCall, tampered, findCall, restored, sizing >>
    /\ UNCHANGED hostVars

\* MerkleTree::from_bytes(&bytes)
FromBytes ==
    /\ built /\ restored = IdleRestored
    /\ restored' = from_bytes(bytes)
    /\ UNCHANGED << leaves, built, tree, pathCall, tampered, findCall, bytes, damage, sizing >>
    /\ UNCHANGED hostVars

Next ==
    \/ New
    \/ \E n \in HugeLeafCounts : NewHuge(n)
    \/ \E i \in 0 .. (Pow2(tree.depth) + 1) : GetPath(i)
    \/ TamperSibling
    \/ TamperIndex
    \/ \E x \in ProbeValues : FindLeaf(x)
    \/ ToBytes
    \/ \E d \in 0 .. MaxCell : DamageDepth(d)
    \/ \E n \in 0 .. MaxCell : DamageNumLeaves(n)
    \/ DamageDropNode
    \/ \E j \in {1, Len(tree.nodes)} : DamageNodeBytes(j)
    \/ DamageTruncate
    \/ FromBytes

Spec == Init /\ [][Next]_vars

\* ------------------------------------------------------------ properties
Max(a, b) == IF a >= b THEN a ELSE b

\* the leaf level of the tree of leaves: the real leaves, then zero padding
PaddedLeaf(i) == IF i < Len(leaves) THEN At(leaves, i) ELSE 0

\* C1: for a tree built from a non-empty leaf vector and an index below its
\* length, get_path returns a path whose leaf is the leaf at that index, whose
\* siblings and indices have exactly depth entries each, and whose compute_root
\* is the root of the tree.
C1_PathReplaysToRoot ==
    (pathCall.called /\ leaves # << >> /\ pathCall.index < Len(leaves)) =>
        /\ ~pathCall.panicked
        /\ is_some(pathCall.value)
        /\ LET p == unwrap(pathCall.value)
           IN /\ p.leaf = At(leaves, pathCall.index)
              /\ Len(p.siblings) = tree.depth
              /\ Len(p.indices) = tree.depth
              /\ compute_root(p) = root(tree)
              /\ verify(p, root(tree))

\* a path of the last real leaf of a five-leaf tree (padded to eight) was returned
C1_Witness ==
    /\ pathCall.called /\ Len(leaves) = 5 /\ pathCall.index = 4
    /\ is_some(pathCall.value) /\ Len(unwrap(pathCall.value).siblings) = 3

\* C2 as stated: a path with any one sibling replaced by another field element,
\* or any one index bit flipped, no longer computes the root of the tree.
C2_AnyTamperChangesRoot ==
    tampered.called => compute_root(tampered.path) # root(tree)

\* C2 amended: replacing one sibling by another field element changes the
\* computed root; flipping the index bit of a level changes it exactly when the
\* sibling of that level differs from the hash computed up to that level.
C2_TamperChangesRoot ==
    tampered.called =>
        LET p == unwrap(pathCall.value)
            k == tampered.level
        IN /\ tampered.kind = "sibling" => ~verify(tampered.path, root(tree))
           /\ tampered.kind = "index" =>
                 (verify(tampered.path, root(tree)) <=> p.siblings[k] = current_at(p, k))

\* an index bit above the leaf level was flipped where sibling and running hash differ
C2_Witness ==
    /\ tampered.called /\ tampered.kind = "index" /\ tampered.level = 2
    /\ LET p == unwrap(pathCall.value) IN p.siblings[2] # current_at(p, 2)
    /\ ~verify(tampered.path, root(tree))

\* C3: get_path returns None exactly for the indices at or past the number of
\* leaves given to new (padding slots, indices past the padded size, every index
\* of an empty tree), Some for every index below it, and never panics.
C3_PathNoneIffOutOfRange ==
    pathCall.called =>
        /\ ~pathCall.panicked
        /\ is_some(pathCall.value) <=> pathCall.index < Len(leaves)
        /\ tree.num_leaves = Len(leaves)

\* get_path was refused for a padding slot of a non-empty tree
C3_Witness ==
    /\ pathCall.called /\ leaves # << >>
    /\ pathCall.index >= Len(leaves) /\ pathCall.index < Pow2(tree.depth)
    /\ pathCall.value = None

\* the least d with n <= 2^d
RECURSIVE CeilLog2(_)
CeilLog2(n) == IF n <= 1 THEN 0 ELSE 1 + CeilLog2((n + 1) \div 2)

\* C4 as stated: every tree returned by new has depth ceil(log2(max(num_leaves, 2))).
C4_EveryDepthIsCeilLog2 ==
    built => tree.depth = CeilLog2(Max(Len(leaves), 2))

\* C4 amended: every tree built from a non-empty leaf vector has depth
\* ceil(log2(max(num_leaves, 2))), its leaf level has 2^depth slots, and 2^depth
\* is the least power of two that is at least max(num_leaves, 2); the same depth
\* is chosen for leaf vectors of about 2^30 leaves.
C4_DepthIsCeilLog2 ==
    /\ (built /\ leaves # << >>) =>
          /\ tree.num_leaves = Len(leaves)
          /\ tree.depth = CeilLog2(Max(Len(leaves), 2))
          /\ Len(tree.nodes) - (Pow2(tree.depth) - 1) = Pow2(tree.depth)
          /\ Pow2(tree.depth) >= Max(Len(leaves), 2)
          /\ Pow2(tree.depth - 1) < Max(Len(leaves), 2)
    /\ sizing.num_leaves > 0 => sizing.depth = CeilLog2(Max(sizing.num_leaves, 2))

\* a tree of five leaves was built with depth 3
C4_Witness == built /\ Len(leaves) = 5 /\ tree.depth = 3 /\ Len(tree.nodes) = 15

\* C5: the tree of an empty leaf vector is a single zero node with depth 0 and
\* num_leaves 0; find_leaf returns None for every value and get_path for every index.
C5_EmptyTree ==
    (built /\ leaves = << >>) =>
        /\ tree.nodes = << 0 >>
        /\ root(tree) = 0
        /\ tree.depth = 0
        /\ tree.num_leaves = 0
        /\ findCall.called =>
              findCall.index = None /\ findCall.path = None /\ ~findCall.panicked
        /\ pathCall.called => pathCall.value = None /\ ~pathCall.panicked

\* the padding value zero was looked up in the tree of an empty leaf vector
C5_Witness ==
    built /\ leaves = << >> /\ findCall.called /\ findCall.leaf = 0 /\ findCall.index = None

\* C6: no tree deeper than MAX_DEPTH is ever returned by new.
C6_DepthAtMostMax ==
    /\ built => tree.depth <= MAX_DEPTH
    /\ sizing.depth <= MAX_DEPTH

\* the hash of the subtree whose root is node pos of level lvl, from the leaves
RECURSIVE SubtreeHash(_, _, _)
SubtreeHash(lvl, pos, depth) ==
    IF lvl = depth THEN PaddedLeaf(pos)
    ELSE hash_two(SubtreeHash(lvl + 1, 2 * pos, depth), SubtreeHash(lvl + 1, 2 * pos + 1, depth))

\* C7: a tree built from a non-empty leaf vector stores 2*2^depth - 1 nodes, the
\* root first, the real leaves then zero padding from index 2^depth - 1 on, and
\* every internal node is the hash of its children at 2i+1 and 2i+2.
C7_NodeLayout ==
    (built /\ leaves # << >>) =>
        LET leaf_start == Pow2(tree.depth) - 1
        IN /\ Len(tree.nodes) = 2 * Pow2(tree.depth) - 1
           /\ root(tree) = SubtreeHash(0, 0, tree.depth)
           /\ \A i \in 0 .. (Pow2(tree.depth) - 1) :
                 At(tree.nodes, leaf_start + i) = PaddedLeaf(i)
           /\ \A i \in 0 .. (leaf_start - 1) :
                 At(tree.nodes, i) = hash_two(At(tree.nodes, 2 * i + 1), At(tree.nodes, 2 * i + 2))

\* a padded tree whose two halves differ was built
C7_Witness ==
    /\ built /\ Len(leaves) = 5 /\ Len(tree.nodes) = 15
    /\ At(tree.nodes, 1) # At(tree.nodes, 2)

\* the indices at which x occurs among the real leaves
Occurrences(x) == {i \in 0 .. (Len(leaves) - 1) : At(leaves, i) = x}

\* C8: find_leaf(x) returns Some(i) only for a real leaf i holding x, returns Some
\* for every value among the real leaves and None for every other value, the
\* padding value zero included; get_path_for_leaf(x) is get_path of that index.
C8_FindLeaf ==
    findCall.called =>
        /\ is_some(findCall.index) => unwrap(findCall.index) \in Occurrences(findCall.leaf)
        /\ is_some(findCall.index) <=> Occurrences(findCall.leaf) # {}
        /\ ~findCall.panicked
        /\ findCall.path = IF is_some(findCall.index)
                              THEN get_path(tree, unwrap(findCall.index)).value
                              ELSE None
        /\ is_some(findCall.path) <=> Occurrences(findCall.leaf) # {}
        /\ is_some(findCall.path) => unwrap(findCall.path).leaf = findCall.leaf

\* zero was looked up in a padded tree none of whose real leaves is zero
C8_Witness ==
    /\ findCall.called /\ findCall.leaf = 0 /\ leaves # << >>
    /\ Occurrences(0) = {} /\ Len(leaves) < Pow2(tree.depth)
    /\ findCall.index = None

\* C9: from_bytes of to_bytes of a tree succeeds with the same root, depth and
\* num_leaves, the same find_leaf result for every value, and paths of all real
\* leaves that verify against the restored root.
C9_RoundTrip ==
    (restored.status # "none" /\ bytes = to_bytes(tree)) =>
        /\ restored.status = "Ok"
        /\ root(restored.tree) = root(tree)
        /\ restored.tree.depth = tree.depth
        /\ restored.tree.num_leaves = tree.num_leaves
        /\ \A x \in ProbeValues \cup {root(tree)} :
              find_leaf(restored.tree, x) = find_leaf(tree, x)
        /\ \A i \in 0 .. (tree.num_leaves - 1) :
              LET r == get_path(restored.tree, i)
              IN /\ ~r.panicked /\ is_some(r.value)
                 /\ verify(unwrap(r.value), root(restored.tree))

\* an undamaged file of a five-leaf tree was read back
C9_Witness ==
    /\ restored.status = "Ok" /\ bytes = to_bytes(tree)
    /\ Len(leaves) = 5 /\ restored.tree.num_leaves = 5

\* the decoded record does not describe a consistent tree
Inconsistent(data) ==
    \/ Len(data.nodes) # 2 * Pow2(data.depth) - 1
    \/ data.num_leaves > Pow2(data.depth)
    \/ \E j \in 1 .. Len(data.nodes) : ~is_canonical(data.nodes[j])

\* C10: from_bytes returns Err for every file whose record is inconsistent (node
\* count other than 2*2^depth - 1, num_leaves above 2^depth, or a node that is no
\* canonical encoding): it neither panics nor returns a tree.
C10_InconsistentFileIsErr ==
    (restored.status # "none" /\ is_some(bincode_deserialize(bytes))
         /\ Inconsistent(unwrap(bincode_deserialize(bytes)))) =>
        restored.status = "Err"

\* ------------------------------------------------------ Groth16 (ark_groth16)
\* The proof system is idealised the way the hash is: a proof is accepted by
\* exactly the keys that made it, for exactly the public inputs its circuit was
\* given, and only when the circuit's assignment satisfied its constraints.
\* A constraint system is what generate_constraints leaves behind: the shape
\* the setup fixes, the public inputs and whether the assignment satisfies it.

\* a setup that ignores the generator it is handed and draws entropy of its
\* own, which differs from one point of a session to another
circuit_specific_setup_own_entropy(cs, seed) ==
    [shape |-> cs.shape,
     seed |-> IF call = IdleCall /\ ~proofCall.called THEN "entropy 1" ELSE "entropy 2"]

\* Groth16::circuit_specific_setup: the proving and the verifying key of one
\* setup, known by the shape of the circuit and the seed of the randomness
circuit_specific_setup(cs, seed) == [shape |-> cs.shape, seed |-> seed]

\* Groth16::prove: keys made for another shape give a proof nothing accepts
Groth16_prove(pk, cs, seed) ==
    [key |-> pk, inputs |-> cs.inputs, seed |-> seed,
     satisfied |-> cs.satisfied /\ pk.shape = cs.shape]

\* Groth16::verify_with_processed_vk: Err when the number of public inputs is
\* not the one the key was made for, else Ok(the pairing check)
verify_with_processed_vk(pvk, inputs, proof) ==
    IF Len(inputs) # pvk.shape.num_inputs
    THEN [status |-> "Err", value |-> FALSE]
    ELSE [status |-> "Ok",
          value |-> proof.key = pvk /\ proof.satisfied /\ proof.inputs = inputs]

\* ---------------------------------------------- circuit/merkle_proof.rs
RECURSIVE repeat(_, _)
repeat(x, n) == IF n = 0 THEN << >> ELSE << x >> \o repeat(x, n - 1)

\* the loop of new_empty: current = hash_two(current, sibling) for each sibling
RECURSIVE dummy_root(_, _, _)
dummy_root(current, dummy_path, k) ==
    IF k > Len(dummy_path) THEN current
    ELSE dummy_root(hash_two(current, dummy_path[k]), dummy_path, k + 1)

\* MerkleProofCircuit::new_empty(depth): zero leaf, zero siblings, all-left
\* indices and the root they hash to
MerkleProofCircuit_new_empty(depth) ==
    [leaf |-> 0, path |-> repeat(0, depth), path_indices |-> repeat(FALSE, depth),
     root |-> dummy_root(0, repeat(0, depth), 1)]

\* MerkleProofCircuit::new_with_witness(merkle_path, root)
MerkleProofCircuit_new_with_witness(merkle_path, r) ==
    [leaf |-> merkle_path.leaf, path |-> merkle_path.siblings,
     path_indices |-> merkle_path.indices, root |-> r]

\* MerkleProofCircuit::depth
circuit_depth(circuit) == Len(circuit.path)

\* CondSelectGadget::conditionally_select(cond, a, b)
conditionally_select(cond, a, b) == IF cond THEN a ELSE b

\* the loop hashing (current, sibling) at every level, whatever the index bit
RECURSIVE constrained_root_left_only(_, _, _, _)
constrained_root_left_only(current, path_vars, index_vars, k) ==
    IF k > Len(path_vars) \/ k > Len(index_vars) THEN current
    ELSE constrained_root_left_only(hash_two(current, path_vars[k]), path_vars, index_vars,
                                    k + 1)

\* the loop of generate_constraints over path_vars.zip(index_vars)
RECURSIVE constrained_root(_, _, _, _)
constrained_root(current, path_vars, index_vars, k) ==
    IF k > Len(path_vars) \/ k > Len(index_vars) THEN current
    ELSE LET left == conditionally_select(index_vars[k], path_vars[k], current)
             right == conditionally_select(index_vars[k], current, path_vars[k])
         IN constrained_root(hash_two(left, right), path_vars, index_vars, k + 1)

\* MerkleProofCircuit::generate_constraints: one public input, the root; one
\* hash per level, left and right chosen by the index bit; the last hash is
\* constrained to equal the root
MerkleProofCircuit_generate_constraints(circuit) ==
    [shape |-> [kind |-> "merkle", size |-> Len(circuit.path), num_inputs |-> 1],
     inputs |-> << circuit.root >>,
     satisfied |-> constrained_root(circuit.leaf, circuit.path, circuit.path_indices, 1)
                       = circuit.root]

\* ------------------------------------------------------------- prover.rs
\* the seeds of the two StdRng::seed_from_u64 calls
SETUP_SEED == "0xDEADBEEF"
PROVE_SEED == "0xCAFEBABE"

\* Prover::setup(depth): the prover and the verifying key of one setup
Prover_setup(depth) ==
    LET circuit == MerkleProofCircuit_new_empty(depth)
        keys == circuit_specific_setup(MerkleProofCircuit_generate_constraints(circuit),
                                       SETUP_SEED)
    IN [prover |-> [proving_key |-> keys, depth |-> depth], vk |-> keys]

ProofError(e) == [status |-> e, snark_ran |-> FALSE, value |-> None]

\* prove_with_path with the root replaced by the path's leaf as public input
prove_with_path_leaf_as_input(self, path, r) ==
    LET circuit == MerkleProofCircuit_new_with_witness(path, r)
    IN IF circuit_depth(circuit) # self.depth THEN ProofError("ProofGenerationFailed")
       ELSE [status |-> "Ok", snark_ran |-> TRUE,
             value |-> Some([proof |-> Groth16_prove(self.proving_key,
                                          MerkleProofCircuit_generate_constraints(circuit),
                                          PROVE_SEED),
                             public_input |-> path.leaf])]

\* prove_with_path without the comparison of the two depths
prove_with_path_any_depth(self, path, r) ==
    LET circuit == MerkleProofCircuit_new_with_witness(path, r)
    IN [status |-> "Ok", snark_ran |-> TRUE,
        value |-> Some([proof |-> Groth16_prove(self.proving_key,
                                     MerkleProofCircuit_generate_constraints(circuit),
                                     PROVE_SEED),
                        public_input |-> r])]

\* Prover::prove_with_path(path, root): refuses a path of another depth before
\* the SNARK prover runs; the proof's public input is the root it was given
prove_with_path(self, path, r) ==
    LET circuit == MerkleProofCircuit_new_with_witness(path, r)
    IN IF circuit_depth(circuit) # self.depth THEN ProofError("ProofGenerationFailed")
       ELSE [status |-> "Ok", snark_ran |-> TRUE,
             value |-> Some([proof |-> Groth16_prove(self.proving_key,
                                          MerkleProofCircuit_generate_constraints(circuit),
                                          PROVE_SEED),
                             public_input |-> r])]

\* Prover::prove(tree, leaf): find_leaf, get_path, prove_with_path; a get_path
\* that panics takes prove with it
Prover_prove(self, t, leaf) ==
    LET leaf_index == find_leaf(t, leaf)
    IN IF ~is_some(leaf_index) THEN ProofError("LeafNotFound")
       ELSE LET path == get_path(t, unwrap(leaf_index))
            IN IF path.panicked THEN ProofError("panic")
               ELSE IF ~is_some(path.value) THEN ProofError("LeafNotFound")
               ELSE prove_with_path(self, unwrap(path.value), root(t))

\* ----------------------------------------------------------- verifier.rs
\* Verifier::new(vk): prepare_verifying_key keeps the key's identity
Verifier_new(vk) == [prepared_vk |-> vk]

VerifyOutcome(ran, res) == [pairing_ran |-> ran, result |-> res]

\* Verifier::verify checking the proof against the inputs it was made for
\* instead of the public_input field it carries
Verifier_verify_own_inputs(self, proof) ==
    LET r == verify_with_processed_vk(self.prepared_vk, proof.proof.inputs, proof.proof)
    IN IF r.status = "Err" THEN VerifyOutcome(TRUE, "VerificationFailed")
       ELSE VerifyOutcome(TRUE, IF r.value THEN "true" ELSE "false")

\* Verifier::verify(proof): the pairing check with [proof.public_input]; an error
\* of the library becomes VerificationFailed
Verifier_verify(self, proof) ==
    LET r == verify_with_processed_vk(self.prepared_vk, << proof.public_input >>,
                                      proof.proof)
    IN IF r.status = "Err" THEN VerifyOutcome(TRUE, "VerificationFailed")
       ELSE VerifyOutcome(TRUE, IF r.value THEN "true" ELSE "false")

\* verify_with_root without the comparison of the two roots
verify_with_root_unchecked(self, proof, expected_root) == Verifier_verify(self, proof)

\* Verifier::verify_with_root(proof, expected_root): RootMismatch before any
\* pairing check when the proof's public input is another root
verify_with_root(self, proof, expected_root) ==
    IF proof.public_input # expected_root THEN VerifyOutcome(FALSE, "RootMismatch")
    ELSE Verifier_verify(self, proof)

\* ------------------------------------------- calls on Prover and Verifier
\* the call records of the tree, idle while a prover works on it
callVars == << pathCall, tampered, findCall, bytes, damage, restored, sizing >>

\* the slots of the bindings and their last call
bindingVars == << COUNTRY_PROVER, EMAIL_PROVER, call, circuitCall, mutex, threads, ghost >>

\* depths a prover is set up for: the tree's own, one less and one more
SetupDepths == {d \in {tree.depth - 1, tree.depth, tree.depth + 1} : d >= 0}

\* Prover::setup(d) and Verifier::new on the verifying key it returned
Setup(d) ==
    /\ built /\ prover = None
    /\ LET s == Prover_setup(d)
       IN /\ prover' = Some(s.prover)
          /\ verifier' = Some(Verifier_new(s.vk))
    /\ UNCHANGED << leaves, built, tree, proofCall, verifyCall >>
    /\ UNCHANGED callVars
    /\ UNCHANGED bindingVars

\* Groth16::prove in a build with debug assertions asserts that the constraints
\* are satisfied; a release build returns a proof that nothing accepts
in_build(debug_assertions, outcome) ==
    IF debug_assertions /\ outcome.status = "Ok" /\ ~unwrap(outcome.value).proof.satisfied
    THEN [status |-> "panic", snark_ran |-> TRUE, value |-> None]
    ELSE outcome

\* prover.prove(&tree, &x)
Prove(x) ==
    /\ is_some(prover) /\ ~proofCall.called
    /\ LET r == Prover_prove(unwrap(prover), tree, x)
       IN proofCall' = [called |-> TRUE, op |-> "prove", leaf |-> x, path |-> NoPath,
                        status |-> r.status, snark_ran |-> r.snark_ran, value |-> r.value]
    /\ UNCHANGED << leaves, built, tree, prover, verifier, verifyCall >>
    /\ UNCHANGED callVars
    /\ UNCHANGED bindingVars

\* the path of a real leaf as the tree gives it, with its last level dropped, or
\* with one more level (up to three levels: the hash of a fourth leaves the
\* integers this model computes with)
PathVariants(p) ==
    {p,
     [p EXCEPT !.siblings = SubSeq(p.siblings, 1, Len(p.siblings) - 1),
               !.indices = SubSeq(p.indices, 1, Len(p.indices) - 1)]}
    \cup (IF Len(p.siblings) < ilog2(MaxLeaves) + 1
          THEN {[p EXCEPT !.siblings = Append(p.siblings, 0),
                          !.indices = Append(p.indices, FALSE)]}
          ELSE {})

\* prover.prove_with_path(&path, tree.root()) for such a path
ProveWithPath(i, debug_assertions) ==
    /\ is_some(prover) /\ ~proofCall.called
    /\ i >= 0 /\ i < tree.num_leaves
    /\ \E p \in PathVariants(unwrap(get_path(tree, i).value)) :
           LET r == in_build(debug_assertions,
                             prove_with_path(unwrap(prover), p, root(tree)))
           IN proofCall' = [called |-> TRUE, op |-> "prove_with_path", leaf |-> p.leaf,
                            path |-> p, status |-> r.status, snark_ran |-> r.snark_ran,
                            value |-> r.value]
    /\ UNCHANGED << leaves, built, tree, prover, verifier, verifyCall >>
    /\ UNCHANGED callVars
    /\ UNCHANGED bindingVars

\* roots a proof is presented with or checked against: the tree's and two others
RootCandidates == {root(tree), 0, ForeignValue}

\* the proof as returned, its public_input field overwritten
Presented(pi) == [unwrap(proofCall.value) EXCEPT !.public_input = pi]

\* verifier.verify(&proof)
Verify(pi) ==
    /\ is_some(verifier) /\ proofCall.status = "Ok" /\ ~verifyCall.called
    /\ LET r == Verifier_verify(unwrap(verifier), Presented(pi))
       IN verifyCall' = [called |-> TRUE, op |-> "verify", presented |-> Some(Presented(pi)),
                         expected |-> 0, pairing_ran |-> r.pairing_ran,
                         result |-> r.result]
    /\ UNCHANGED << leaves, built, tree, prover, verifier, proofCall >>
    /\ UNCHANGED callVars
    /\ UNCHANGED bindingVars

\* verifier.verify_with_root(&proof, &expected_root)
VerifyWithRoot(pi, expected_root) ==
    /\ is_some(verifier) /\ proofCall.status = "Ok" /\ ~verifyCall.called
    /\ LET r == verify_with_root(unwrap(verifier), Presented(pi), expected_root)
       IN verifyCall' = [called |-> TRUE, op |-> "verify_with_root",
                         presented |-> Some(Presented(pi)), expected |-> expected_root,
                         pairing_ran |-> r.pairing_ran, result |-> r.result]
    /\ UNCHANGED << leaves, built, tree, prover, verifier, proofCall >>
    /\ UNCHANGED callVars
    /\ UNCHANGED bindingVars


\* ------------------------------------------------- properties of the prover
\* x occurs among the leaves the tree was built from
IsRealLeaf(x) == \E i \in 1 .. Len(leaves) : leaves[i] = x

\* C11: on a tree built from non-empty leaves, with a prover set up for the
\* tree's depth, prove(tree, x) for a real leaf x returns Ok, the proof's
\* public_input is tree.root(), and the verifier of the same setup returns
\* Ok(true) for it.
C11_ProveRealLeafVerifies ==
    (/\ proofCall.called /\ proofCall.op = "prove"
     /\ Len(leaves) > 0
     /\ unwrap(prover).depth = tree.depth
     /\ IsRealLeaf(proofCall.leaf))
    => /\ proofCall.status = "Ok" /\ proofCall.snark_ran
       /\ unwrap(proofCall.value).public_input = root(tree)
       /\ Verifier_verify(unwrap(verifier), unwrap(proofCall.value)).result = "true"
       /\ (/\ verifyCall.called /\ verifyCall.op = "verify"
           /\ verifyCall.presented = proofCall.value)
          => verifyCall.result = "true"

C11_Witness ==
    /\ proofCall.called /\ verifyCall.called
    /\ Len(leaves) = 5 /\ unwrap(prover).depth = 3 /\ tree.depth = 3
    /\ proofCall.op = "prove" /\ proofCall.leaf = At(leaves, 4) /\ proofCall.status = "Ok"
    /\ verifyCall.op = "verify" /\ verifyCall.presented = proofCall.value
    /\ verifyCall.result = "true"

\* C13: verify_with_root(proof, expected_root) returns Err(RootMismatch) exactly
\* when proof.public_input differs from expected_root, and then no pairing check
\* has run; when the two are equal its result is the result of verify(proof);
\* verify alone never returns RootMismatch.
C13_RootMismatchIffRootsDiffer ==
    /\ (verifyCall.called /\ verifyCall.op = "verify_with_root")
       => LET proof == unwrap(verifyCall.presented)
          IN /\ (verifyCall.result = "RootMismatch")
                    <=> (proof.public_input # verifyCall.expected)
             /\ (verifyCall.result = "RootMismatch") => ~verifyCall.pairing_ran
             /\ (proof.public_input = verifyCall.expected)
                => /\ verifyCall.pairing_ran
                   /\ verifyCall.result = Verifier_verify(unwrap(verifier), proof).result
    /\ (verifyCall.called /\ verifyCall.op = "verify")
       => verifyCall.result # "RootMismatch"

C13_Witness ==
    /\ verifyCall.called /\ verifyCall.op = "verify_with_root"
    /\ proofCall.op = "prove" /\ IsRealLeaf(proofCall.leaf)
    /\ unwrap(verifyCall.presented).public_input = root(tree)
    /\ verifyCall.expected = ForeignValue
    /\ verifyCall.result = "RootMismatch" /\ ~verifyCall.pairing_ran

\* C14: a prover set up for depth d returns Err(ProofGenerationFailed), before
\* the SNARK prover runs, from prove_with_path on a path whose sibling count is
\* not d and from prove on a real leaf of a tree whose depth is not d; a proof
\* it returns is for a path of d siblings; prove returns Err(LeafNotFound) for
\* a value that is no real leaf of the tree.
C14_WrongDepthAndUnknownLeafRefused ==
    proofCall.called
    => LET d == unwrap(prover).depth
           refused(e) == /\ proofCall.status = e
                         /\ ~proofCall.snark_ran
                         /\ proofCall.value = None
       IN /\ (proofCall.op = "prove_with_path" /\ Len(proofCall.path.siblings) # d)
             => refused("ProofGenerationFailed")
          /\ (proofCall.op = "prove_with_path" /\ proofCall.status = "Ok")
             => /\ Len(proofCall.path.siblings) = d
                /\ unwrap(proofCall.value).proof.key.shape.size = d
          /\ (proofCall.op = "prove" /\ IsRealLeaf(proofCall.leaf) /\ tree.depth # d)
             => refused("ProofGenerationFailed")
          /\ (proofCall.op = "prove" /\ ~IsRealLeaf(proofCall.leaf))
             => refused("LeafNotFound")

C14_Witness ==
    /\ proofCall.called /\ proofCall.op = "prove_with_path"
    /\ unwrap(prover).depth = 3 /\ tree.depth = 3
    /\ Len(proofCall.path.siblings) = 2
    /\ proofCall.status = "ProofGenerationFailed" /\ ~proofCall.snark_ran

\* ------------------------------------------------ strings of the bindings
\* A string is the sequence of its characters.
Uppers == << "A", "B", "C", "D", "E", "F", "G", "H", "I", "J", "K", "L", "M",
             "N", "O", "P", "Q", "R", "S", "T", "U", "V", "W", "X", "Y", "Z" >>
Lowers == << "a", "b", "c", "d", "e", "f", "g", "h", "i", "j", "k", "l", "m",
             "n", "o", "p", "q", "r", "s", "t", "u", "v", "w", "x", "y", "z" >>

\* char::to_lowercase / to_uppercase on ASCII
lower_char(c) ==
    IF \E i \in 1 .. Len(Uppers) : Uppers[i] = c
    THEN Lowers[CHOOSE i \in 1 .. Len(Uppers) : Uppers[i] = c] ELSE c
upper_char(c) ==
    IF \E i \in 1 .. Len(Lowers) : Lowers[i] = c
    THEN Uppers[CHOOSE i \in 1 .. Len(Lowers) : Lowers[i] = c] ELSE c

\* str::to_lowercase, str::to_uppercase
to_lowercase(s) == [i \in 1 .. Len(s) |-> lower_char(s[i])]
to_uppercase(s) == [i \in 1 .. Len(s) |-> upper_char(s[i])]

\* str::contains(pat)
str_contains(s, pat) ==
    \E i \in 0 .. (Len(s) - Len(pat)) : SubSeq(s, i + 1, i + Len(pat)) = pat

\* str::is_empty
is_empty(s) == Len(s) = 0

\* --------------------------------------- field elements of the bindings
\* The circuits of the bindings hash strings and 64-bit integers, whose values
\* leave the integers this model computes with: their field elements are terms,
\* equal exactly when built the same way (the hashes are collision-free).

\* Fr::from_be_bytes_mod_order(Sha256(s))
sha256_to_field(s) == << "sha256", s >>

\* x as u64 for a 64-bit signed x: the value wrap * 2^64 + x
as_u64(x) == IF x >= 0 THEN [wrap |-> 0, low |-> x] ELSE [wrap |-> 1, low |-> x]

\* Fr::from(u): the modulus is above 2^64, nothing is reduced
Fr_from_u64(u) == << "u64", u.wrap, u.low >>

\* PoseidonHasher::hash_many
hash_many(elements) == << "poseidon", Len(elements), elements >>

\* CanonicalSerialize::serialize_compressed of a proof ("proof") or of a field
\* element ("fr"), and deserialize_compressed, which refuses other bytes
serialize_term(kind, v) == << kind, v >>
deserialize_term(kind, b) == IF Len(b) = 2 /\ b[1] = kind THEN Some(b[2]) ELSE None

\* hex::encode and hex::decode: the empty string decodes to no bytes, a string
\* that is not hexadecimal is refused
hex_encode(b) == IF b = << >> THEN << >> ELSE << "hex", b >>
hex_decode(h) ==
    IF h = << >> THEN Some(<< >>)
    ELSE IF Len(h) = 2 /\ h[1] = "hex" THEN Some(h[2]) ELSE None

\* ---------------------------------------------------- proofs/location.rs
\* Coordinates are counted in units of 10^-7 degree; a lower bound of the table
\* is rounded up and an upper bound down to the unit, which keeps every
\* comparison with a coordinate of the grid.
Degree == 10000000

COUNTRIES == <<
    [code |-> << "U", "S" >>, name |-> "United States",
     min_lat |-> 243963080, max_lat |-> 493843580,
     min_lng |-> -1250000000, max_lng |-> -669345700],
    [code |-> << "G", "B" >>, name |-> "United Kingdom",
     min_lat |-> 496740000, max_lat |-> 610610000,
     min_lng |-> -140155170, max_lng |-> 20919117],
    [code |-> << "C", "A" >>, name |-> "Canada",
     min_lat |-> 416751051, max_lat |-> 832332400,
     min_lng |-> -1410000000, max_lng |-> -526480988],
    [code |-> << "A", "U" >>, name |-> "Australia",
     min_lat |-> -436345972, max_lat |-> -106681858,
     min_lng |-> 1133389531, max_lng |-> 1535694690],
    [code |-> << "D", "E" >>, name |-> "Germany",
     min_lat |-> 472701114, max_lat |-> 550815000,
     min_lng |-> 58663425, max_lng |-> 150419319],
    [code |-> << "F", "R" >>, name |-> "France",
     min_lat |-> 413658000, max_lat |-> 511241990,
     min_lng |-> -55591000, max_lng |-> 96625000],
    [code |-> << "J", "P" >>, name |-> "Japan",
     min_lat |-> 243963080, max_lat |-> 455514830,
     min_lng |-> 1229345700, max_lng |-> 1539866720],
    [code |-> << "I", "N" >>, name |-> "India",
     min_lat |-> 65546079, max_lat |-> 356745457,
     min_lng |-> 681113787, max_lng |-> 973955610],
    [code |-> << "B", "R" >>, name |-> "Brazil",
     min_lat |-> -337683777, max_lat |-> 52444863,
     min_lng |-> -739872354, max_lng |-> -347299935],
    [code |-> << "C", "N" >>, name |-> "China",
     min_lat |-> 181535000, max_lat |-> 535608600,
     min_lng |-> 734994136, max_lng |-> 1347754563]
>>

\* Iterator::find on a slice: the first element the predicate holds for;
\* holds[i] is the predicate on table[i]
find_first(table, holds) ==
    IF \E i \in 1 .. Len(table) : holds[i]
    THEN Some(table[CHOOSE i \in 1 .. Len(table) :
                        holds[i] /\ \A j \in 1 .. (i - 1) : ~holds[j]])
    ELSE None

\* LocationVerifier::is_in_country
is_in_country(coords, country) ==
    /\ coords.latitude >= country.min_lat
    /\ coords.latitude <= country.max_lat
    /\ coords.longitude >= country.min_lng
    /\ coords.longitude <= country.max_lng

\* find returning the last element the predicate holds for
find_country_last_match(coords) ==
    LET holds == [i \in 1 .. Len(COUNTRIES) |-> is_in_country(coords, COUNTRIES[i])]
    IN IF \E i \in 1 .. Len(COUNTRIES) : holds[i]
       THEN Some(COUNTRIES[CHOOSE i \in 1 .. Len(COUNTRIES) :
                     holds[i] /\ \A j \in (i + 1) .. Len(COUNTRIES) : ~holds[j]])
       ELSE None

\* LocationVerifier::find_country
find_country(coords) ==
    find_first(COUNTRIES, [i \in 1 .. Len(COUNTRIES) |-> is_in_country(coords, COUNTRIES[i])])

\* ----------------------------------------------- circuit/country_proof.rs
COORD_SCALE == 1000000

\* coord_to_scaled: (coord * COORD_SCALE as f64) as i64, a cast that drops the
\* fraction towards zero
coord_to_scaled(coord) ==
    LET per == Degree \div COORD_SCALE
    IN IF coord >= 0 THEN coord \div per ELSE -((-coord) \div per)

\* country_code_to_field
country_code_to_field(code) == sha256_to_field(to_uppercase(code))

\* ScaledBounds::new
ScaledBounds_new(min_lat, max_lat, min_lng, max_lng) ==
    [min_lat |-> coord_to_scaled(min_lat), max_lat |-> coord_to_scaled(max_lat),
     min_lng |-> coord_to_scaled(min_lng), max_lng |-> coord_to_scaled(max_lng)]

\* CountryProofCircuit::new_empty
CountryProofCircuit_new_empty ==
    LET lat == Fr_from_u64(as_u64(0))
        lng == Fr_from_u64(as_u64(0))
        country == Fr_from_u64(as_u64(0))
    IN [latitude |-> lat, longitude |-> lng, country_id |-> country,
        commitment |-> hash_many(<< lat, lng, country >>)]

\* CountryProofCircuit::new_with_witness: the bounds are not used
CountryProofCircuit_new_with_witness(latitude, longitude, bounds, country_code) ==
    LET lat == Fr_from_u64(as_u64(coord_to_scaled(latitude)))
        lng == Fr_from_u64(as_u64(coord_to_scaled(longitude) + 180 * COORD_SCALE))
        country == country_code_to_field(country_code)
    IN [latitude |-> lat, longitude |-> lng, country_id |-> country,
        commitment |-> hash_many(<< lat, lng, country >>)]

\* poseidon_hash_three: the sponge of hash_many, in the circuit
poseidon_hash_three(a, b, c) == hash_many(<< a, b, c >>)

\* CountryProofCircuit::generate_constraints: one public input, the commitment,
\* constrained to equal the hash of the three witnesses
CountryProofCircuit_generate_constraints(circuit) ==
    [shape |-> [kind |-> "country", size |-> 0, num_inputs |-> 1],
     inputs |-> << circuit.commitment >>,
     satisfied |-> poseidon_hash_three(circuit.latitude, circuit.longitude,
                                       circuit.country_id) = circuit.commitment]

\* ------------------------------------------------- circuit/email_proof.rs
\* string_to_field
string_to_field(s) == sha256_to_field(s)

\* EmailProofInput::from_domain_with_dkim
from_domain_with_dkim(domain, dkim_verified, dkim_data) ==
    [email |-> << "u", "s", "e", "r", "@" >> \o domain,
     domain |-> to_lowercase(domain),
     dkim_data |-> IF dkim_verified THEN dkim_data ELSE << >>,
     dkim_verified |-> dkim_verified]

\* EmailDomainCircuit::new_empty
EmailDomainCircuit_new_empty ==
    LET email_hash == Fr_from_u64(as_u64(0))
        dkim_hash == Fr_from_u64(as_u64(1))
        nonce == Fr_from_u64(as_u64(2))
        domain_hash == Fr_from_u64(as_u64(3))
    IN [email_hash |-> email_hash, dkim_hash |-> dkim_hash, nonce |-> nonce,
        domain_hash |-> domain_hash,
        commitment |-> hash_many(<< email_hash, domain_hash, dkim_hash, nonce >>)]

\* EmailDomainCircuit::new_with_witness; nonce_bytes is what rand::random gave
EmailDomainCircuit_new_with_witness(input, nonce_bytes) ==
    LET email_hash == string_to_field(input.email)
        domain_hash == string_to_field(input.domain)
        dkim_hash == string_to_field(input.dkim_data)
        nonce == << "be_bytes", nonce_bytes >>
    IN [email_hash |-> email_hash, dkim_hash |-> dkim_hash, nonce |-> nonce,
        domain_hash |-> domain_hash,
        commitment |-> hash_many(<< email_hash, domain_hash, dkim_hash, nonce >>)]

\* poseidon_hash_four
poseidon_hash_four(a, b, c, d) == hash_many(<< a, b, c, d >>)

\* EmailDomainCircuit::generate_constraints: two public inputs, the domain hash
\* then the commitment, the latter constrained to equal the hash of the four
EmailDomainCircuit_generate_constraints(circuit) ==
    [shape |-> [kind |-> "email", size |-> 0, num_inputs |-> 2],
     inputs |-> << circuit.domain_hash, circuit.commitment >>,
     satisfied |-> poseidon_hash_four(circuit.email_hash, circuit.domain_hash,
                                      circuit.dkim_hash, circuit.nonce)
                       = circuit.commitment]

\* ---------------------------------------------------------------- wasm.rs
\* the seeds of the two setups
COUNTRY_SETUP_SEED == "0x5A4B5F5641554C54"
EMAIL_SETUP_SEED == "0x454D41494C5F5A4B"

\* CountryProverState / EmailProverState of one setup; process_vk keeps the
\* key's identity
ProverState(keys) == [proving_key |-> keys, verifying_key |-> keys, prepared_vk |-> keys]

\* Result of Groth16::prove as the bindings match on it
prove_result(pk, cs, seed) == [ok |-> TRUE, proof |-> Groth16_prove(pk, cs, seed)]

\* the body of init_country_prover / init_email_prover on a slot: setup_ok is
\* whether circuit_specific_setup returned Ok
init_slot(state, cs, seed, setup_ok) ==
    IF is_some(state) THEN [returned |-> TRUE, ran_setup |-> FALSE, state |-> state]
    ELSE IF setup_ok
         THEN [returned |-> TRUE, ran_setup |-> TRUE,
               state |-> Some(ProverState(circuit_specific_setup(cs, seed)))]
         ELSE [returned |-> FALSE, ran_setup |-> TRUE, state |-> None]

\* init_country_prover running the setup again on a populated slot
init_country_prover_again(state, setup_ok) ==
    IF setup_ok
    THEN [returned |-> TRUE, ran_setup |-> TRUE,
          state |-> Some(ProverState(circuit_specific_setup(
                        CountryProofCircuit_generate_constraints(CountryProofCircuit_new_empty),
                        COUNTRY_SETUP_SEED)))]
    ELSE [returned |-> FALSE, ran_setup |-> TRUE, state |-> None]

\* init_country_prover
init_country_prover(state, setup_ok) ==
    init_slot(state, CountryProofCircuit_generate_constraints(CountryProofCircuit_new_empty),
              COUNTRY_SETUP_SEED, setup_ok)

\* init_email_prover
init_email_prover(state, setup_ok) ==
    init_slot(state, EmailDomainCircuit_generate_constraints(EmailDomainCircuit_new_empty),
              EMAIL_SETUP_SEED, setup_ok)

\* is_prover_ready answering true whatever the slot holds
is_prover_ready_always(state) == TRUE

\* is_prover_ready / is_email_prover_ready
is_prover_ready(state) == is_some(state)

Error(message, arg) == Some([message |-> message, arg |-> arg])

\* CountryProofResult of a call that gave no proof
CountryFailure(message, arg) ==
    [success |-> FALSE, country_code |-> << >>, country_name |-> "",
     proof_bytes |-> << >>, public_input |-> << >>, error |-> Error(message, arg)]

\* the tail shared by prove_country_from_coords and prove_country: the circuit
\* of the coordinates, the proof, and the country identifier as public_input
country_proof_of(slot, country, lat, lng, seed) ==
    LET bounds == ScaledBounds_new(country.min_lat, country.max_lat,
                                   country.min_lng, country.max_lng)
        circuit == CountryProofCircuit_new_with_witness(lat, lng, bounds, country.code)
        r == prove_result(slot.proving_key,
                          CountryProofCircuit_generate_constraints(circuit), seed)
    IN IF r.ok
       THEN LET country_id == country_code_to_field(country.code)
            IN [success |-> TRUE, country_code |-> country.code,
                country_name |-> country.name,
                proof_bytes |-> serialize_term("proof", r.proof),
                public_input |-> hex_encode(serialize_term("fr", country_id)),
                error |-> None]
       ELSE CountryFailure("Proof generation failed", << >>)

\* prove_country_from_coords(lat, lng); now is js_sys::Date::now()
prove_country_from_coords(state, lat, lng, now) ==
    LET pred(c) == lat >= c.min_lat /\ lat <= c.max_lat /\ lng >= c.min_lng /\ lng <= c.max_lng
        country == find_first(COUNTRIES, [i \in 1 .. Len(COUNTRIES) |-> pred(COUNTRIES[i])])
    IN IF ~is_some(country)
       THEN CountryFailure("Coordinates not within any supported country", << >>)
       ELSE IF ~is_some(state)
       THEN CountryFailure("Prover not initialized. Call init_country_prover() first.", << >>)
       ELSE country_proof_of(unwrap(state), unwrap(country), lat, lng, now)

\* prove_country looking at the slot before it looks up the code
prove_country_ready_first(state, country_code, seed) ==
    LET code_upper == to_uppercase(country_code)
        pred(c) == c.code = code_upper
        country == find_first(COUNTRIES, [i \in 1 .. Len(COUNTRIES) |-> pred(COUNTRIES[i])])
    IN IF ~is_some(state)
       THEN CountryFailure("Prover not initialized. Call init_country_prover() first.", << >>)
       ELSE IF ~is_some(country)
       THEN CountryFailure("Unknown country code: ", country_code)
       ELSE LET c == unwrap(country)
                lat == c.min_lat + (c.max_lat - c.min_lat) \div 2
                lng == c.min_lng + (c.max_lng - c.min_lng) \div 2
            IN country_proof_of(unwrap(state), c, lat, lng, seed)

\* prove_country(country_code); seed is what getrandom gave
prove_country(state, country_code, seed) ==
    LET code_upper == to_uppercase(country_code)
        pred(c) == c.code = code_upper
        country == find_first(COUNTRIES, [i \in 1 .. Len(COUNTRIES) |-> pred(COUNTRIES[i])])
    IN IF ~is_some(country)
       THEN CountryFailure("Unknown country code: ", country_code)
       ELSE IF ~is_some(state)
       THEN CountryFailure("Prover not initialized. Call init_country_prover() first.", << >>)
       ELSE LET c == unwrap(country)
                lat == c.min_lat + (c.max_lat - c.min_lat) \div 2
                lng == c.min_lng + (c.max_lng - c.min_lng) \div 2
            IN country_proof_of(unwrap(state), c, lat, lng, seed)

\* CountryProofResult::proof_hex / EmailProofResult::proof_hex
proof_hex(result) == hex_encode(result.proof_bytes)

\* verify_country_proof(proof_hex, public_input_hex)
verify_country_proof(state, proof_hex_, public_input_hex) ==
    LET proof_bytes == hex_decode(proof_hex_)
        public_input_bytes == hex_decode(public_input_hex)
    IN IF ~is_some(proof_bytes) THEN FALSE
       ELSE IF ~is_some(public_input_bytes) THEN FALSE
       ELSE LET proof == deserialize_term("proof", unwrap(proof_bytes))
                public_input == deserialize_term("fr", unwrap(public_input_bytes))
            IN IF ~is_some(proof) THEN FALSE
               ELSE IF ~is_some(public_input) THEN FALSE
               ELSE IF ~is_some(state) THEN FALSE
               ELSE LET r == verify_with_processed_vk(unwrap(state).prepared_vk,
                                                      << unwrap(public_input) >>,
                                                      unwrap(proof))
                    IN IF r.status = "Ok" THEN r.value ELSE FALSE

DKIM_PASS == << "d", "k", "i", "m", "=", "p", "a", "s", "s" >>

\* EmailProofResult of a call that gave no proof
EmailFailure(domain, dkim_verified, message) ==
    [success |-> FALSE, domain |-> domain, proof_bytes |-> << >>,
     domain_hash |-> << >>, commitment |-> << >>, dkim_verified |-> dkim_verified,
     error |-> Error(message, << >>)]

\* prove_email_domain that takes the DKIM check as passed
prove_email_domain_unchecked(state, domain, dkim_signature, auth_results, now, nonce_bytes) ==
    LET dkim_data == IF ~is_empty(dkim_signature) THEN dkim_signature ELSE auth_results
    IN IF ~is_some(state)
       THEN EmailFailure(domain, TRUE,
                         "Email prover not initialized. Call init_email_prover() first.")
       ELSE LET input == from_domain_with_dkim(domain, TRUE, dkim_data)
                circuit == EmailDomainCircuit_new_with_witness(input, nonce_bytes)
                r == prove_result(unwrap(state).proving_key,
                                  EmailDomainCircuit_generate_constraints(circuit), now)
            IN [success |-> TRUE, domain |-> domain,
                proof_bytes |-> serialize_term("proof", r.proof),
                domain_hash |-> hex_encode(serialize_term("fr", circuit.domain_hash)),
                commitment |-> hex_encode(serialize_term("fr", circuit.commitment)),
                dkim_verified |-> TRUE, error |-> None]

\* prove_email_domain(domain, dkim_signature, auth_results); now is
\* js_sys::Date::now(), nonce_bytes what rand::random gave the circuit
prove_email_domain(state, domain, dkim_signature, auth_results, now, nonce_bytes) ==
    LET dkim_verified == str_contains(to_lowercase(auth_results), DKIM_PASS)
    IN IF ~dkim_verified
       THEN EmailFailure(domain, FALSE,
                         "DKIM verification failed - email may not be authentic")
       ELSE LET dkim_data == IF ~is_empty(dkim_signature) THEN dkim_signature
                                                          ELSE auth_results
            IN IF ~is_some(state)
               THEN EmailFailure(domain, dkim_verified,
                        "Email prover not initialized. Call init_email_prover() first.")
               ELSE LET input == from_domain_with_dkim(domain, dkim_verified, dkim_data)
                        circuit == EmailDomainCircuit_new_with_witness(input, nonce_bytes)
                        domain_hash == circuit.domain_hash
                        commitment == circuit.commitment
                        r == prove_result(unwrap(state).proving_key,
                                          EmailDomainCircuit_generate_constraints(circuit),
                                          now)
                    IN IF r.ok
                       THEN [success |-> TRUE, domain |-> domain,
                             proof_bytes |-> serialize_term("proof", r.proof),
                             domain_hash |-> hex_encode(serialize_term("fr", domain_hash)),
                             commitment |-> hex_encode(serialize_term("fr", commitment)),
                             dkim_verified |-> dkim_verified, error |-> None]
                       ELSE EmailFailure(domain, dkim_verified, "Proof generation failed")

\* verify_email_proof handing the two public inputs over in the other order
verify_email_proof_swapped(state, proof_hex_, domain_hash_hex, commitment_hex) ==
    LET proof_bytes == hex_decode(proof_hex_)
        domain_hash_bytes == hex_decode(domain_hash_hex)
        commitment_bytes == hex_decode(commitment_hex)
    IN IF ~is_some(proof_bytes) \/ ~is_some(domain_hash_bytes) \/ ~is_some(commitment_bytes)
       THEN FALSE
       ELSE LET proof == deserialize_term("proof", unwrap(proof_bytes))
                domain_hash == deserialize_term("fr", unwrap(domain_hash_bytes))
                commitment == deserialize_term("fr", unwrap(commitment_bytes))
            IN IF ~is_some(proof) \/ ~is_some(domain_hash) \/ ~is_some(commitment)
                  \/ ~is_some(state)
               THEN FALSE
               ELSE LET r == verify_with_processed_vk(unwrap(state).prepared_vk,
                                << unwrap(commitment), unwrap(domain_hash) >>,
                                unwrap(proof))
                    IN IF r.status = "Ok" THEN r.value ELSE FALSE

\* verify_email_proof(proof_hex, domain_hash_hex, commitment_hex)
verify_email_proof(state, proof_hex_, domain_hash_hex, commitment_hex) ==
    LET proof_bytes == hex_decode(proof_hex_)
        domain_hash_bytes == hex_decode(domain_hash_hex)
        commitment_bytes == hex_decode(commitment_hex)
    IN IF ~is_some(proof_bytes) THEN FALSE
       ELSE IF ~is_some(domain_hash_bytes) THEN FALSE
       ELSE IF ~is_some(commitment_bytes) THEN FALSE
       ELSE LET proof == deserialize_term("proof", unwrap(proof_bytes))
                domain_hash == deserialize_term("fr", unwrap(domain_hash_bytes))
                commitment == deserialize_term("fr", unwrap(commitment_bytes))
            IN IF ~is_some(proof) THEN FALSE
               ELSE IF ~is_some(domain_hash) THEN FALSE
               ELSE IF ~is_some(commitment) THEN FALSE
               ELSE IF ~is_some(state) THEN FALSE
               ELSE LET r == verify_with_processed_vk(unwrap(state).prepared_vk,
                                << unwrap(domain_hash), unwrap(commitment) >>,
                                unwrap(proof))
                    IN IF r.status = "Ok" THEN r.value ELSE FALSE

\* -------------------------------------------------- calls of the bindings
\* The bindings share no state with a tree or a Prover: a behaviour calls the
\* bindings or works on a tree, not both.
BindingsIdle == COUNTRY_PROVER = None /\ EMAIL_PROVER = None /\ call = IdleCall
BindingsTurn == ~built /\ leaves = << >>

\* MerkleTree::new in a program that has not called a binding
Build == BindingsIdle /\ New

\* what a call of a binding leaves alone
NoTreeWork ==
    /\ UNCHANGED << leaves, built, tree, prover, verifier, proofCall, verifyCall >>
    /\ UNCHANGED callVars
    /\ UNCHANGED << circuitCall, mutex, threads, ghost >>

Coords(lat, lng) == [latitude |-> lat, longitude |-> lng]

\* coordinates in tenths of a micro-degree
Deg(whole, millionths) == whole * Degree + millionths * (Degree \div COORD_SCALE)

\* San Francisco; the US/CA overlap; the southern edge of the US box and one
\* unit south of it; the north-east corner of the US box; the Gulf of Guinea;
\* Sydney; Paris; the GB/FR overlap; the JP/CN overlap; northern Canada
SamplePoints ==
    {Coords(Deg(37, 774900), -Deg(122, 419400)),
     Coords(Deg(45, 0), -Deg(100, 0)),
     Coords(COUNTRIES[1].min_lat, -Deg(100, 0)),
     Coords(COUNTRIES[1].min_lat - 1, -Deg(100, 0)),
     Coords(COUNTRIES[1].max_lat, COUNTRIES[1].max_lng),
     Coords(0, 0),
     Coords(-Deg(33, 868800), Deg(151, 209300)),
     Coords(Deg(48, 856600), Deg(2, 352200)),
     Coords(Deg(50, 0), 0),
     Coords(Deg(35, 0), Deg(130, 0)),
     Coords(Deg(60, 0), -Deg(100, 0))}

\* every edge of every box, and the coordinates one unit outside it
LatEdges == UNION {{COUNTRIES[i].min_lat - 1, COUNTRIES[i].min_lat,
                    COUNTRIES[i].max_lat, COUNTRIES[i].max_lat + 1} :
                   i \in 1 .. Len(COUNTRIES)}
LngEdges == UNION {{COUNTRIES[i].min_lng - 1, COUNTRIES[i].min_lng,
                    COUNTRIES[i].max_lng, COUNTRIES[i].max_lng + 1} :
                   i \in 1 .. Len(COUNTRIES)}
EdgePoints == {Coords(lat, lng) : lat \in LatEdges, lng \in LngEdges}

SampleCodes == {<< "U", "S" >>, << "u", "s" >>, << "A", "u" >>, << "X", "X" >>, << >>}
Clock == {"t1", "t2"}
OsRandom == {"r1", "r2"}

\* the scan of COUNTRIES at the head of prove_country_from_coords
scan_countries(lat, lng) ==
    LET pred(c) == lat >= c.min_lat /\ lat <= c.max_lat /\ lng >= c.min_lng /\ lng <= c.max_lng
    IN find_first(COUNTRIES, [i \in 1 .. Len(COUNTRIES) |-> pred(COUNTRIES[i])])

\* LocationVerifier::find_country(&coords), beside the scan of the binding
FindCountry ==
    /\ BindingsTurn /\ BindingsIdle
    /\ \E coords \in EdgePoints \cup SamplePoints :
           call' = [op |-> "find_country", ready |-> FALSE, before |-> None,
                    args |-> coords, ran_setup |-> FALSE,
                    returned |-> [found |-> find_country(coords),
                                  scanned |-> scan_countries(coords.latitude,
                                                             coords.longitude)]]
    /\ UNCHANGED << COUNTRY_PROVER, EMAIL_PROVER >>
    /\ NoTreeWork

\* a call of a binding may follow any call but the lookups of FindCountry
Calling == BindingsTurn /\ call.op # "find_country"

\* The two slots share nothing: the proving and verifying calls of one slot are
\* not followed by those of the other.
CountryCalling ==
    Calling /\ call.op \notin {"prove_email_domain", "verify_email_proof"}
EmailCalling ==
    Calling /\ call.op \notin {"prove_country_from_coords", "prove_country",
                                "verify_country_proof"}

\* init_country_prover()
InitCountryProver(setup_ok) ==
    /\ Calling
    /\ LET r == init_country_prover(COUNTRY_PROVER, setup_ok)
       IN /\ COUNTRY_PROVER' = r.state
          /\ call' = [op |-> "init_country_prover", ready |-> is_some(COUNTRY_PROVER),
                      before |-> COUNTRY_PROVER, args |-> << >>,
                      ran_setup |-> r.ran_setup, returned |-> r.returned]
    /\ UNCHANGED EMAIL_PROVER
    /\ NoTreeWork

\* init_email_prover()
InitEmailProver(setup_ok) ==
    /\ Calling
    /\ LET r == init_email_prover(EMAIL_PROVER, setup_ok)
       IN /\ EMAIL_PROVER' = r.state
          /\ call' = [op |-> "init_email_prover", ready |-> is_some(EMAIL_PROVER),
                      before |-> EMAIL_PROVER, args |-> << >>,
                      ran_setup |-> r.ran_setup, returned |-> r.returned]
    /\ UNCHANGED COUNTRY_PROVER
    /\ NoTreeWork

\* is_prover_ready()
IsProverReady ==
    /\ Calling
    /\ call' = [op |-> "is_prover_ready", ready |-> is_some(COUNTRY_PROVER),
                before |-> COUNTRY_PROVER, args |-> << >>, ran_setup |-> FALSE,
                returned |-> is_prover_ready(COUNTRY_PROVER)]
    /\ UNCHANGED << COUNTRY_PROVER, EMAIL_PROVER >>
    /\ NoTreeWork

\* is_email_prover_ready()
IsEmailProverReady ==
    /\ Calling
    /\ call' = [op |-> "is_email_prover_ready", ready |-> is_some(EMAIL_PROVER),
                before |-> EMAIL_PROVER, args |-> << >>, ran_setup |-> FALSE,
                returned |-> is_prover_ready(EMAIL_PROVER)]
    /\ UNCHANGED << COUNTRY_PROVER, EMAIL_PROVER >>
    /\ NoTreeWork

\* prove_country_from_coords(lat, lng)
ProveCountryFromCoords(coords, now) ==
    /\ CountryCalling
    /\ call' = [op |-> "prove_country_from_coords", ready |-> is_some(COUNTRY_PROVER),
                before |-> COUNTRY_PROVER, args |-> coords, ran_setup |-> FALSE,
                returned |-> prove_country_from_coords(COUNTRY_PROVER, coords.latitude,
                                                       coords.longitude, now)]
    /\ UNCHANGED << COUNTRY_PROVER, EMAIL_PROVER >>
    /\ NoTreeWork

\* prove_country(country_code)
ProveCountry(country_code, seed) ==
    /\ CountryCalling
    /\ call' = [op |-> "prove_country", ready |-> is_some(COUNTRY_PROVER),
                before |-> COUNTRY_PROVER, args |-> country_code, ran_setup |-> FALSE,
                returned |-> prove_country(COUNTRY_PROVER, country_code, seed)]
    /\ UNCHANGED << COUNTRY_PROVER, EMAIL_PROVER >>
    /\ NoTreeWork

\* Results made in another session of the page; the setups are seeded with
\* constants, so that session held the same keys.
SessionCountryResult ==
    prove_country(init_country_prover(None, TRUE).state, << "U", "S" >>, "r0")
SessionEmailResult ==
    prove_email_domain(init_email_prover(None, TRUE).state, << "a", ".", "i", "o" >>,
                       << >>, DKIM_PASS, "t0", "n0")

\* a string that is no hexadecimal string
NotHex == << "not hexadecimal" >>

\* the public inputs the proof of a result was made for, as hex strings
proved_inputs(result) == unwrap(deserialize_term("proof", result.proof_bytes)).inputs
proved_input_hex(result, k) == hex_encode(serialize_term("fr", proved_inputs(result)[k]))

\* the result of the last call when it was a successful prove_country*, and
\* the result of the other session
CountryResults ==
    {SessionCountryResult}
    \cup (IF call.op \in {"prove_country_from_coords", "prove_country"}
          THEN {r \in {call.returned} : r.success} ELSE {})

\* verify_country_proof(proof_hex, public_input_hex)
VerifyCountryProof(result, proof_hex_, public_input_hex) ==
    /\ CountryCalling
    /\ call' = [op |-> "verify_country_proof", ready |-> is_some(COUNTRY_PROVER),
                before |-> COUNTRY_PROVER,
                args |-> [result |-> result, proof_hex |-> proof_hex_,
                          public_input_hex |-> public_input_hex],
                ran_setup |-> FALSE,
                returned |-> verify_country_proof(COUNTRY_PROVER, proof_hex_,
                                                  public_input_hex)]
    /\ UNCHANGED << COUNTRY_PROVER, EMAIL_PROVER >>
    /\ NoTreeWork

SampleDomains == {<< "a", ".", "i", "o" >>, << "A", ".", "i", "o" >>, << "b", ".", "i", "o" >>}
SampleSignatures == {<< >>, << "s", "i", "g" >>}
SampleAuthResults ==
    {DKIM_PASS,
     << "x", ";", " ", "D", "K", "I", "M", "=", "P", "a", "s", "s", " ", "y" >>,
     << "d", "k", "i", "m", "=", "f", "a", "i", "l" >>,
     << "d", "k", "i", "m", "=", "p", "a", "s" >>}
Nonces == {"n1", "n2"}

\* prove_email_domain(domain, dkim_signature, auth_results)
ProveEmailDomain(domain, dkim_signature, auth_results, now, nonce_bytes) ==
    /\ EmailCalling
    /\ call' = [op |-> "prove_email_domain", ready |-> is_some(EMAIL_PROVER),
                before |-> EMAIL_PROVER,
                args |-> [domain |-> domain, dkim_signature |-> dkim_signature,
                          auth_results |-> auth_results],
                ran_setup |-> FALSE,
                returned |-> prove_email_domain(EMAIL_PROVER, domain, dkim_signature,
                                                auth_results, now, nonce_bytes)]
    /\ UNCHANGED << COUNTRY_PROVER, EMAIL_PROVER >>
    /\ NoTreeWork

EmailResults ==
    {SessionEmailResult}
    \cup (IF call.op = "prove_email_domain"
          THEN {r \in {call.returned} : r.success} ELSE {})

\* verify_email_proof(proof_hex, domain_hash_hex, commitment_hex)
VerifyEmailProof(result, proof_hex_, domain_hash_hex, commitment_hex) ==
    /\ EmailCalling
    /\ call' = [op |-> "verify_email_proof", ready |-> is_some(EMAIL_PROVER),
                before |-> EMAIL_PROVER,
                args |-> [result |-> result, proof_hex |-> proof_hex_,
                          domain_hash_hex |-> domain_hash_hex,
                          commitment_hex |-> commitment_hex],
                ran_setup |-> FALSE,
                returned |-> verify_email_proof(EMAIL_PROVER, proof_hex_, domain_hash_hex,
                                                commitment_hex)]
    /\ UNCHANGED << COUNTRY_PROVER, EMAIL_PROVER >>
    /\ NoTreeWork

\* hex strings of field elements that belong to no proof at hand
OtherFrHex ==
    hex_encode(serialize_term("fr", string_to_field(<< "b", ".", "i", "o" >>)))

BindingNext ==
    \/ FindCountry
    \/ \E setup_ok \in BOOLEAN : InitCountryProver(setup_ok)
    \/ \E setup_ok \in BOOLEAN : InitEmailProver(setup_ok)
    \/ IsProverReady
    \/ IsEmailProverReady
    \/ \E coords \in SamplePoints, now \in Clock : ProveCountryFromCoords(coords, now)
    \/ \E country_code \in SampleCodes, seed \in OsRandom : ProveCountry(country_code, seed)
    \/ \E result \in CountryResults :
           \E proof_hex_ \in {proof_hex(result), << >>, NotHex},
              public_input_hex \in {result.public_input, proved_input_hex(result, 1),
                                    OtherFrHex, NotHex} :
               VerifyCountryProof(result, proof_hex_, public_input_hex)
    \/ \E domain \in SampleDomains, dkim_signature \in SampleSignatures,
          auth_results \in SampleAuthResults, now \in {"t1"}, nonce_bytes \in Nonces :
           ProveEmailDomain(domain, dkim_signature, auth_results, now, nonce_bytes)
    \/ \E result \in EmailResults :
           \E proof_hex_ \in {proof_hex(result), NotHex},
              domain_hash_hex \in {result.domain_hash, SessionEmailResult.domain_hash,
                                   OtherFrHex, NotHex},
              commitment_hex \in {result.commitment, SessionEmailResult.commitment,
                                  result.domain_hash} :
               VerifyEmailProof(result, proof_hex_, domain_hash_hex, commitment_hex)

\* a program works on a tree with a Prover and a Verifier, or calls the bindings
ProverNext ==
    \/ Build
    \/ \E d \in SetupDepths : Setup(d)
    \/ \E x \in ProbeValues : Prove(x)
    \/ \E i \in {0, tree.num_leaves - 1}, debug_assertions \in BOOLEAN :
           ProveWithPath(i, debug_assertions)
    \/ \E pi \in RootCandidates : Verify(pi)
    \/ \E pi \in RootCandidates, expected_root \in RootCandidates :
           VerifyWithRoot(pi, expected_root)
    \/ BindingNext

ProverSpec == Init /\ [][ProverNext]_vars

\* ----------------------------------------------- properties of the bindings
\* C12: a proof made for public inputs x is rejected with any other public
\* inputs: Verifier::verify returns Ok(false) for a MembershipProof whose
\* public_input was replaced by another value, verify_country_proof returns
\* false for another public input, and verify_email_proof returns false for
\* another domain_hash or another commitment.
C12_OtherPublicInputsRejected ==
    /\ (/\ verifyCall.called /\ verifyCall.op = "verify"
        /\ unwrap(verifyCall.presented).public_input
               # unwrap(verifyCall.presented).proof.inputs[1])
       => verifyCall.result = "false"
    /\ (/\ call.op = "verify_country_proof"
        /\ call.args.proof_hex = proof_hex(call.args.result)
        /\ call.args.public_input_hex # proved_input_hex(call.args.result, 1))
       => call.returned = FALSE
    /\ (/\ call.op = "verify_email_proof"
        /\ call.args.proof_hex = proof_hex(call.args.result)
        /\ \/ call.args.domain_hash_hex # proved_input_hex(call.args.result, 1)
           \/ call.args.commitment_hex # proved_input_hex(call.args.result, 2))
       => call.returned = FALSE

C12_Witness ==
    /\ call.op = "verify_email_proof" /\ call.ready
    /\ call.args.result # SessionEmailResult
    /\ call.args.proof_hex = proof_hex(call.args.result)
    /\ call.args.domain_hash_hex = proved_input_hex(call.args.result, 1)
    /\ call.args.commitment_hex = SessionEmailResult.commitment
    /\ call.returned = FALSE

\* C15: init_country_prover (init_email_prover) called on a populated slot
\* returns true, does not run the setup, and leaves the slot's proving key,
\* verifying key and prepared key as they were.
C15_InitIdempotent ==
    /\ (call.op = "init_country_prover" /\ call.ready)
       => /\ call.returned = TRUE /\ ~call.ran_setup
          /\ COUNTRY_PROVER = call.before
    /\ (call.op = "init_email_prover" /\ call.ready)
       => /\ call.returned = TRUE /\ ~call.ran_setup
          /\ EMAIL_PROVER = call.before

C15_Witness ==
    /\ call.op = "init_country_prover" /\ call.ready
    /\ call.returned = TRUE /\ ~call.ran_setup
    /\ is_some(COUNTRY_PROVER) /\ COUNTRY_PROVER = call.before

\* C16: a call that finds its slot empty has no positive result: the prove_*
\* calls return success = false with an error and no proof bytes, the verify_*
\* calls return false, is_prover_ready / is_email_prover_ready return false.
C16_NothingBeforeInit ==
    ~call.ready
    => /\ (call.op \in {"prove_country_from_coords", "prove_country", "prove_email_domain"})
          => /\ ~call.returned.success
             /\ is_some(call.returned.error)
             /\ call.returned.proof_bytes = << >>
       /\ (call.op \in {"verify_country_proof", "verify_email_proof"})
          => call.returned = FALSE
       /\ (call.op \in {"is_prover_ready", "is_email_prover_ready"})
          => call.returned = FALSE

C16_Witness ==
    /\ call.op = "verify_country_proof" /\ ~call.ready
    /\ call.args.result = SessionCountryResult
    /\ call.args.proof_hex = proof_hex(SessionCountryResult)
    /\ call.args.public_input_hex = proved_input_hex(SessionCountryResult, 1)
    /\ call.returned = FALSE

\* C17: a successful result of prove_country_from_coords or prove_country
\* carries as public_input the commitment its proof was made for, and
\* verify_country_proof(result.proof_hex, result.public_input) returns true.
C17_CountryResultVerifies ==
    /\ (/\ call.op \in {"prove_country_from_coords", "prove_country"}
        /\ call.returned.success)
       => /\ call.returned.public_input = proved_input_hex(call.returned, 1)
          /\ verify_country_proof(COUNTRY_PROVER, proof_hex(call.returned),
                                  call.returned.public_input)
    /\ (/\ call.op = "verify_country_proof" /\ call.ready
        /\ call.args.proof_hex = proof_hex(call.args.result)
        /\ call.args.public_input_hex = call.args.result.public_input)
       => call.returned = TRUE

\* C18: a successful result of prove_email_domain verifies with its own
\* domain_hash and commitment, which are the proof's public inputs in that
\* order; its domain_hash is the SHA-256 field element of the lowercased
\* domain, the same as in any other proof of that domain.
C18_EmailResultVerifies ==
    /\ (call.op = "prove_email_domain" /\ call.returned.success)
       => LET r == call.returned
          IN /\ verify_email_proof(EMAIL_PROVER, proof_hex(r), r.domain_hash, r.commitment)
             /\ << r.domain_hash, r.commitment >>
                    = << proved_input_hex(r, 1), proved_input_hex(r, 2) >>
             /\ r.domain_hash
                    = hex_encode(serialize_term("fr",
                          sha256_to_field(to_lowercase(call.args.domain))))
             /\ (to_lowercase(call.args.domain) = to_lowercase(SessionEmailResult.domain))
                => r.domain_hash = SessionEmailResult.domain_hash
    /\ (/\ call.op = "verify_email_proof" /\ call.ready
        /\ call.args.proof_hex = proof_hex(call.args.result)
        /\ call.args.domain_hash_hex = call.args.result.domain_hash
        /\ call.args.commitment_hex = call.args.result.commitment)
       => call.returned = TRUE

C18_Witness ==
    /\ call.op = "verify_email_proof" /\ call.ready
    /\ call.args.result # SessionEmailResult
    /\ call.args.result.domain = << "A", ".", "i", "o" >>
    /\ call.args.result.domain_hash = SessionEmailResult.domain_hash
    /\ call.args.result.commitment # SessionEmailResult.commitment
    /\ call.args.proof_hex = proof_hex(call.args.result)
    /\ call.args.domain_hash_hex = call.args.result.domain_hash
    /\ call.args.commitment_hex = call.args.result.commitment
    /\ call.returned = TRUE

\* auth_results holds dkim=pass in some mix of upper and lower case
HasDkimPass(auth_results) ==
    \E i \in 0 .. (Len(auth_results) - Len(DKIM_PASS)) :
        \A k \in 1 .. Len(DKIM_PASS) : lower_char(auth_results[i + k]) = DKIM_PASS[k]

\* C19: prove_email_domain returns a proof only when auth_results contains
\* dkim=pass in any mix of cases; otherwise it returns success = false,
\* dkim_verified = false and no proof bytes, whether or not the slot is
\* populated, and the slot is as it was.
C19_NoProofWithoutDkimPass ==
    call.op = "prove_email_domain"
    => /\ (call.returned.success \/ call.returned.proof_bytes # << >>)
          => HasDkimPass(call.args.auth_results)
       /\ ~HasDkimPass(call.args.auth_results)
          => /\ ~call.returned.success
             /\ ~call.returned.dkim_verified
             /\ call.returned.proof_bytes = << >>
             /\ EMAIL_PROVER = call.before

C19_Witness ==
    /\ call.op = "prove_email_domain" /\ call.ready
    /\ call.args.auth_results = << "d", "k", "i", "m", "=", "p", "a", "s" >>
    /\ call.args.dkim_signature # << >>
    /\ ~call.returned.success /\ ~call.returned.dkim_verified
    /\ call.returned.proof_bytes = << >>

\* the rows of COUNTRIES whose box, bounds included, holds the point
RowsHolding(coords) ==
    {i \in 1 .. Len(COUNTRIES) :
        /\ COUNTRIES[i].min_lat <= coords.latitude /\ coords.latitude <= COUNTRIES[i].max_lat
        /\ COUNTRIES[i].min_lng <= coords.longitude /\ coords.longitude <= COUNTRIES[i].max_lng}

FirstRowHolding(coords) ==
    IF RowsHolding(coords) = {} THEN None
    ELSE Some(COUNTRIES[CHOOSE i \in RowsHolding(coords) :
                            \A j \in RowsHolding(coords) : i <= j])

\* C20: find_country and the scan at the head of prove_country_from_coords
\* both return the earliest row of COUNTRIES whose box holds the point, bounds
\* included, and nothing for a point in no box; prove_country_from_coords
\* names that row's country, and fails without a proof for a point in no box.
C20_FirstRowWins ==
    /\ call.op = "find_country"
       => /\ call.returned.found = FirstRowHolding(call.args)
          /\ call.returned.scanned = call.returned.found
    /\ call.op = "prove_country_from_coords"
       => /\ (RowsHolding(call.args) = {})
             => /\ ~call.returned.success
                /\ call.returned.proof_bytes = << >>
                /\ is_some(call.returned.error)
          /\ call.returned.success
             => call.returned.country_code = unwrap(FirstRowHolding(call.args)).code

C20_Witness ==
    /\ call.op = "find_country"
    /\ {1, 3} \subseteq RowsHolding(call.args)
    /\ call.args.latitude = COUNTRIES[1].max_lat
    /\ call.returned.found = Some(COUNTRIES[1])
    /\ call.returned.scanned = Some(COUNTRIES[1])

\* ------------------------------------------- properties of the randomness
\* the seed the SNARK prover ran with in the proof of a binding's result
seed_of(result) == unwrap(deserialize_term("proof", result.proof_bytes)).seed

\* C23: every proof a proving entry point returns was made with randomness
\* drawn from the operating system's secure source: the seed of the proof of
\* prove_with_path (and of prove, which calls it), of prove_country_from_coords,
\* of prove_country and of prove_email_domain is a draw of OsRandom, never a
\* constant of the program and never a reading of the clock.
C23_ProofSeedsFromOsRandom ==
    /\ (proofCall.called /\ proofCall.status = "Ok")
       => unwrap(proofCall.value).proof.seed \in OsRandom
    /\ (/\ call.op \in {"prove_country_from_coords", "prove_country", "prove_email_domain"}
        /\ call.returned.success)
       => seed_of(call.returned) \in OsRandom

\* ------------------------------------------- properties of the encodings
\* the field element of the integer s, that is s mod r: for a negative s the
\* element r - |s|, which no 64-bit unsigned value converts to
Fr_of_integer(s) == IF s >= 0 THEN Fr_from_u64(as_u64(s)) ELSE << "neg", -s >>

\* C27: the proof of prove_country_from_coords(lat, lng) commits to the field
\* elements of the scaled integers: the latitude witness is the field element
\* of coord_to_scaled(lat), negative latitudes included, the longitude witness
\* that of coord_to_scaled(lng) + 180 * COORD_SCALE, which is not negative.
C27_WitnessesAreScaledIntegers ==
    (call.op = "prove_country_from_coords" /\ call.returned.success)
    => LET s == coord_to_scaled(call.args.latitude)
           t == coord_to_scaled(call.args.longitude)
       IN /\ t + 180 * COORD_SCALE >= 0
          /\ proved_inputs(call.returned)[1]
                 = hash_many(<< Fr_of_integer(s), Fr_of_integer(t + 180 * COORD_SCALE),
                                country_code_to_field(call.returned.country_code) >>)

\* ------------------------------------- properties of the order of checks
NOT_INITIALIZED == "Prover not initialized. Call init_country_prover() first."
EMAIL_NOT_INITIALIZED == "Email prover not initialized. Call init_email_prover() first."

\* the code names a row of COUNTRIES, in any mix of cases
KnownCode(country_code) ==
    \E i \in 1 .. Len(COUNTRIES) : COUNTRIES[i].code = to_uppercase(country_code)

\* C29: the proving calls check their inputs before they look at the slot: on
\* an empty slot, coordinates in no box give the 'not within any supported
\* country' error, an unknown code gives 'Unknown country code', auth_results
\* without dkim=pass give the DKIM error; the 'not initialized' error is
\* given only for an empty slot and inputs that pass these checks.
C29_InputChecksBeforeReadiness ==
    LET message == unwrap(call.returned.error).message
    IN /\ (call.op = "prove_country_from_coords" /\ ~call.returned.success)
          => /\ (RowsHolding(call.args) = {})
                => message = "Coordinates not within any supported country"
             /\ (message = NOT_INITIALIZED)
                <=> (~call.ready /\ RowsHolding(call.args) # {})
       /\ (call.op = "prove_country" /\ ~call.returned.success)
          => /\ ~KnownCode(call.args) => message = "Unknown country code: "
             /\ (message = NOT_INITIALIZED) <=> (~call.ready /\ KnownCode(call.args))
       /\ (call.op = "prove_email_domain" /\ ~call.returned.success)
          => /\ ~HasDkimPass(call.args.auth_results)
                => message = "DKIM verification failed - email may not be authentic"
             /\ (message = EMAIL_NOT_INITIALIZED)
                <=> (~call.ready /\ HasDkimPass(call.args.auth_results))

C29_Witness ==
    /\ call.op = "prove_country" /\ ~call.ready
    /\ call.args = << "X", "X" >>
    /\ ~call.returned.success
    /\ unwrap(call.returned.error).message = "Unknown country code: "

\* ------------------------------------------ properties of repeated leaves
\* the 0-based positions of x among the real leaves
PositionsOf(x) == {i \in 0 .. (Len(leaves) - 1) : At(leaves, i) = x}
LastPositionOf(x) == CHOOSE i \in PositionsOf(x) : \A j \in PositionsOf(x) : j <= i

\* C28: in a tree built from leaves with repeated values the sidecar map has
\* one entry per distinct real leaf value; find_leaf of a real leaf value is
\* the largest position it occurs at; get_path_for_leaf returns the path of
\* that position, which verifies against the root; Prover::prove makes its
\* proof for that path.
C28_RepeatedLeafLastIndex ==
    built
    => /\ Cardinality(DOMAIN tree.leaf_index) = Cardinality({leaves[i] : i \in 1 .. Len(leaves)})
       /\ \A x \in ProbeValues :
             PositionsOf(x) # {}
             => LET last == LastPositionOf(x)
                    path == get_path_for_leaf(tree, x)
                IN /\ find_leaf(tree, x) = Some(last)
                   /\ ~path.panicked
                   /\ path.value = get_path(tree, last).value
                   /\ is_some(path.value)
                   /\ unwrap(path.value).leaf = x
                   /\ verify(unwrap(path.value), root(tree))
       /\ (/\ proofCall.called /\ proofCall.op = "prove"
           /\ PositionsOf(proofCall.leaf) # {})
          => LET last == LastPositionOf(proofCall.leaf)
                 made == prove_with_path(unwrap(prover),
                                         unwrap(get_path(tree, last).value), root(tree))
             IN /\ proofCall.status = made.status
                /\ proofCall.value = made.value
                /\ (unwrap(prover).depth = tree.depth)
                   => /\ proofCall.status = "Ok"
                      /\ unwrap(proofCall.value).proof.satisfied

C28_Witness ==
    /\ proofCall.called /\ proofCall.op = "prove" /\ proofCall.status = "Ok"
    /\ leaves = << 1, 0, 1, 0, 0 >>
    /\ proofCall.leaf = 1
    /\ find_leaf(tree, 1) = Some(2)
    /\ verifyCall.called /\ verifyCall.op = "verify"
    /\ verifyCall.presented = proofCall.value /\ verifyCall.result = "true"

CircuitPaths ==
    UNION {{[leaf |-> x, siblings |-> ss, indices |-> bs] :
               x \in ProbeValues, ss \in [1 .. d -> ProbeValues], bs \in [1 .. d -> BOOLEAN]} :
           d \in 0 .. MaxPathLen}

\* roots a path is checked against: its own, that of its mirror image (every
\* index bit flipped), and two values that are no root of it
RootsFor(p) ==
    {compute_root(p),
     fold_path(p.leaf, p.siblings, [k \in 1 .. Len(p.indices) |-> ~p.indices[k]], 1),
     0, ForeignValue}

CircuitInit ==
    /\ leaves = << >>
    /\ TreeIdle
    /\ HostIdle
    /\ \E p \in CircuitPaths : \E r \in RootsFor(p) :
           circuitCall = [IdleCircuitCall EXCEPT !.path = p, !.root = r]

CircuitFrame ==
    /\ UNCHANGED << leaves, built, tree, prover, verifier, proofCall, verifyCall >>
    /\ UNCHANGED callVars
    /\ UNCHANGED << COUNTRY_PROVER, EMAIL_PROVER, call, mutex, threads, ghost >>

\* MerkleProofCircuit::new_with_witness(&path, root).generate_constraints(cs)
GenerateConstraints ==
    /\ circuitCall.synthesized = None
    /\ circuitCall' = [circuitCall EXCEPT !.synthesized =
           Some(MerkleProofCircuit_generate_constraints(
                    MerkleProofCircuit_new_with_witness(circuitCall.path, circuitCall.root)))]
    /\ CircuitFrame

\* MerkleProofCircuit::new_empty(d).generate_constraints(cs), d the path's length
GenerateEmptyConstraints ==
    /\ circuitCall.empty = None
    /\ circuitCall' = [circuitCall EXCEPT !.empty =
           Some(MerkleProofCircuit_generate_constraints(
                    MerkleProofCircuit_new_empty(Len(circuitCall.path.siblings))))]
    /\ CircuitFrame

\* path.verify(&root, &hasher)
PathVerify ==
    /\ circuitCall.verified = None
    /\ circuitCall' = [circuitCall EXCEPT !.verified =
                           Some(verify(circuitCall.path, circuitCall.root))]
    /\ CircuitFrame

CircuitNext ==
    \/ GenerateConstraints
    \/ GenerateEmptyConstraints
    \/ PathVerify

CircuitSpec == CircuitInit /\ [][CircuitNext]_vars

\* C26: the constraints of new_with_witness(path, root) are satisfied exactly
\* when path.verify(root) is true, the circuit's only public input is the
\* root, and the constraints of new_empty(d) are satisfied for every d.
C26_CircuitMatchesNativeCheck ==
    /\ (is_some(circuitCall.synthesized) /\ is_some(circuitCall.verified))
       => unwrap(circuitCall.synthesized).satisfied = unwrap(circuitCall.verified)
    /\ is_some(circuitCall.synthesized)
       => /\ unwrap(circuitCall.synthesized).inputs = << circuitCall.root >>
          /\ unwrap(circuitCall.synthesized).satisfied
                 <=> (compute_root(circuitCall.path) = circuitCall.root)
    /\ is_some(circuitCall.empty)
       => /\ unwrap(circuitCall.empty).satisfied
          /\ unwrap(circuitCall.empty).shape.size = Len(circuitCall.path.siblings)

C26_Witness ==
    /\ is_some(circuitCall.synthesized) /\ is_some(circuitCall.verified)
    /\ is_some(circuitCall.empty)
    /\ circuitCall.path = [leaf |-> 1, siblings |-> << 0, 2 >>, indices |-> << TRUE, FALSE >>]
    /\ circuitCall.root = hash_two(hash_two(0, 1), 2)
    /\ unwrap(circuitCall.synthesized).satisfied
    /\ unwrap(circuitCall.verified)

\* ------------------------------------- the bindings under threads of a host
\* Each thread of the host is in one call of a binding at a time.  A call that
\* touches a slot locks the slot's mutex with lock().unwrap() and holds the
\* guard until it returns or panics.

mutex_lock_shared(m) == IF m.poisoned THEN "PoisonError" ELSE "acquired"

\* Mutex::lock as a thread meets it: it waits while another thread holds the
\* guard; once a thread has panicked with the guard in hand it returns a
\* PoisonError, which unwrap() turns into a panic
mutex_lock(m) ==
    IF is_some(m.holder) THEN "blocked"
    ELSE IF m.poisoned THEN "PoisonError"
    ELSE "acquired"

\* the guard dropped, by the return of the call or by the unwinding of a panic
drop_guard(m, panicking) == [holder |-> None, poisoned |-> m.poisoned \/ panicking]

slot_of(s) == IF s = "country" THEN COUNTRY_PROVER ELSE EMAIL_PROVER

\* the country a code names: wasm.rs, the lookup at the head of prove_country
lookup_country(country_code) ==
    find_first(COUNTRIES, [i \in 1 .. Len(COUNTRIES) |->
                              COUNTRIES[i].code = to_uppercase(country_code)])

\* a thread enters a call that goes on to lock slot s; populated_before notes
\* what had been seen of the slot by then: for a readiness call, that readiness
\* had answered true; for an init, that the slot was populated
begin(op, s, args) ==
    [pc |-> "lock", op |-> op, slot |-> s, args |-> args, pending |-> None,
     status |-> "running", value |-> FALSE,
     populated_before |->
         IF op \in {"is_prover_ready", "is_email_prover_ready"} THEN ghost[s].ready_seen
         ELSE IF op \in {"init_country_prover", "init_email_prover"} THEN is_some(slot_of(s))
         ELSE FALSE]

\* a thread is back from a call that returned before any lock
returned_early(op, s, value) ==
    [pc |-> "idle", op |-> op, slot |-> s, args |-> << >>, pending |-> None,
     status |-> "returned", value |-> value, populated_before |-> FALSE]

\* the call of thread t ends, its arguments and locals gone: status is
\* "returned" or "panicked"
finish(t, status, value) ==
    [threads EXCEPT ![t] = [@ EXCEPT !.pc = "idle", !.args = << >>, !.pending = None,
                                     !.status = status, !.value = value]]

HostFrame ==
    /\ UNCHANGED << leaves, built, tree, prover, verifier, proofCall, verifyCall >>
    /\ UNCHANGED callVars
    /\ UNCHANGED << call, circuitCall >>

SlotsUntouched == UNCHANGED << COUNTRY_PROVER, EMAIL_PROVER >>

init_op(s) == IF s = "country" THEN "init_country_prover" ELSE "init_email_prover"
ready_op(s) == IF s = "country" THEN "is_prover_ready" ELSE "is_email_prover_ready"
verify_op(s) == IF s = "country" THEN "verify_country_proof" ELSE "verify_email_proof"

\* init_country_prover() / init_email_prover() is called
CallInit(t, s) ==
    /\ threads[t].pc = "idle"
    /\ ghost[s].setups + Cardinality({u \in Threads : threads[u].pc # "idle"
                                           /\ threads[u].op = init_op(s)}) < MaxSetups
    /\ threads' = [threads EXCEPT ![t] = begin(init_op(s), s, << >>)]
    /\ UNCHANGED << mutex, ghost >>
    /\ SlotsUntouched /\ HostFrame

\* is_prover_ready() / is_email_prover_ready() is called
CallIsReady(t, s) ==
    /\ threads[t].pc = "idle"
    /\ threads' = [threads EXCEPT ![t] = begin(ready_op(s), s, << >>)]
    /\ UNCHANGED << mutex, ghost >>
    /\ SlotsUntouched /\ HostFrame

\* prove_country_from_coords(lat, lng) is called: coordinates in no box return
\* at once
CallProveCountryFromCoords(t, coords, now) ==
    /\ threads[t].pc = "idle"
    /\ LET args == [latitude |-> coords.latitude, longitude |-> coords.longitude,
                    now |-> now]
       IN threads' = [threads EXCEPT ![t] =
              IF is_some(scan_countries(coords.latitude, coords.longitude))
              THEN begin("prove_country_from_coords", "country", args)
              ELSE returned_early("prove_country_from_coords", "country",
                       prove_country_from_coords(None, coords.latitude, coords.longitude,
                                                 now))]
    /\ UNCHANGED << mutex, ghost >>
    /\ SlotsUntouched /\ HostFrame

\* prove_country(country_code) is called: an unknown code returns at once
CallProveCountry(t, country_code) ==
    /\ threads[t].pc = "idle"
    /\ threads' = [threads EXCEPT ![t] =
           IF is_some(lookup_country(country_code))
           THEN begin("prove_country", "country", country_code)
           ELSE returned_early("prove_country", "country",
                               prove_country(None, country_code, "unused"))]
    /\ UNCHANGED << mutex, ghost >>
    /\ SlotsUntouched /\ HostFrame

\* prove_email_domain(domain, dkim_signature, auth_results) is called:
\* auth_results without dkim=pass return at once
CallProveEmailDomain(t, domain, dkim_signature, auth_results, now, nonce_bytes) ==
    /\ threads[t].pc = "idle"
    /\ LET args == [domain |-> domain, dkim_signature |-> dkim_signature,
                    auth_results |-> auth_results, now |-> now,
                    nonce_bytes |-> nonce_bytes]
       IN threads' = [threads EXCEPT ![t] =
              IF str_contains(to_lowercase(auth_results), DKIM_PASS)
              THEN begin("prove_email_domain", "email", args)
              ELSE returned_early("prove_email_domain", "email",
                       prove_email_domain(None, domain, dkim_signature, auth_results,
                                          now, nonce_bytes))]
    /\ UNCHANGED << mutex, ghost >>
    /\ SlotsUntouched /\ HostFrame

\* verify_country_proof(proof_hex, public_input_hex) /
\* verify_email_proof(proof_hex, domain_hash_hex, commitment_hex) is called:
\* strings that do not decode return false at once
CallVerify(t, s, proof_hex_, inputs_hex) ==
    /\ threads[t].pc = "idle"
    /\ LET args == [proof_hex |-> proof_hex_, inputs_hex |-> inputs_hex]
           \* hex::decode and deserialize_compressed both succeed on the string
           decodes(kind, h) ==
               /\ is_some(hex_decode(h))
               /\ is_some(deserialize_term(kind, unwrap(hex_decode(h))))
       IN threads' = [threads EXCEPT ![t] =
              IF /\ decodes("proof", proof_hex_)
                 /\ \A k \in 1 .. Len(inputs_hex) : decodes("fr", inputs_hex[k])
              THEN begin(verify_op(s), s, args)
              ELSE returned_early(verify_op(s), s, FALSE)]
    /\ UNCHANGED << mutex, ghost >>
    /\ SlotsUntouched /\ HostFrame

\* SLOT.lock().unwrap()
AcquireLock(t) ==
    /\ threads[t].pc = "lock"
    /\ LET s == threads[t].slot
           r == mutex_lock(mutex[s])
       IN /\ r # "blocked"
          /\ IF r = "acquired"
             THEN /\ mutex' = [mutex EXCEPT ![s].holder = Some(t)]
                  /\ threads' = [threads EXCEPT ![t].pc = "held"]
             ELSE /\ mutex' = mutex
                  /\ threads' = finish(t, "panicked", r)
    /\ UNCHANGED ghost
    /\ SlotsUntouched /\ HostFrame

\* init_*: the is_some test and, on an empty slot, the Groth16 setup
RunSetup(t, setup_ok) ==
    /\ threads[t].pc = "held" /\ threads[t].op \in {"init_country_prover", "init_email_prover"}
    /\ LET s == threads[t].slot
           r == IF s = "country" THEN init_country_prover(slot_of(s), setup_ok)
                                 ELSE init_email_prover(slot_of(s), setup_ok)
       IN /\ ghost' = [ghost EXCEPT ![s].setups = @ + (IF r.ran_setup THEN 1 ELSE 0)]
          /\ IF r.ran_setup /\ r.returned
             THEN /\ threads' = [threads EXCEPT ![t].pc = "store", ![t].pending = r.state]
                  /\ mutex' = mutex
             ELSE /\ threads' = finish(t, "returned", r.returned)
                  /\ mutex' = [mutex EXCEPT ![s] = drop_guard(@, FALSE)]
    /\ SlotsUntouched /\ HostFrame

\* init_*: *state = Some(keys), and the return of true
StoreKeys(t) ==
    /\ threads[t].pc = "store"
    /\ LET s == threads[t].slot
       IN /\ IF s = "country"
             THEN COUNTRY_PROVER' = threads[t].pending /\ UNCHANGED EMAIL_PROVER
             ELSE EMAIL_PROVER' = threads[t].pending /\ UNCHANGED COUNTRY_PROVER
          /\ ghost' = [ghost EXCEPT ![s].stored = @ + 1]
          /\ threads' = finish(t, "returned", TRUE)
          /\ mutex' = [mutex EXCEPT ![s] = drop_guard(@, FALSE)]
    /\ HostFrame

\* is_prover_ready / is_email_prover_ready: is_some under the lock
AnswerReady(t) ==
    /\ threads[t].pc = "held" /\ threads[t].op \in {"is_prover_ready", "is_email_prover_ready"}
    /\ LET s == threads[t].slot
           r == is_prover_ready(slot_of(s))
       IN /\ ghost' = [ghost EXCEPT ![s].ready_seen = @ \/ r]
          /\ threads' = finish(t, "returned", r)
          /\ mutex' = [mutex EXCEPT ![s] = drop_guard(@, FALSE)]
    /\ SlotsUntouched /\ HostFrame

\* prove_country on a populated slot: getrandom(&mut seed).expect(..); drawn is
\* Some(seed) or None when the host has no secure random source
DrawSeed(t, drawn) ==
    /\ threads[t].pc = "held" /\ threads[t].op = "prove_country"
    /\ is_some(slot_of("country")) /\ threads[t].pending = None
    /\ IF is_some(drawn)
       THEN /\ threads' = [threads EXCEPT ![t].pending = drawn]
            /\ mutex' = mutex
       ELSE /\ threads' = finish(t, "panicked", "Failed to get secure random bytes")
            /\ mutex' = [mutex EXCEPT !["country"] = drop_guard(@, TRUE)]
    /\ UNCHANGED ghost
    /\ SlotsUntouched /\ HostFrame

\* the rest of a prove_* call under the lock: the match on the slot, the
\* circuit, Groth16::prove and the result
RunProver(t) ==
    /\ threads[t].pc = "held"
    /\ threads[t].op \in {"prove_country_from_coords", "prove_country", "prove_email_domain"}
    /\ threads[t].op = "prove_country"
       => (~is_some(slot_of("country")) \/ is_some(threads[t].pending))
    /\ LET th == threads[t]
           s == th.slot
           r == CASE th.op = "prove_country_from_coords"
                       -> prove_country_from_coords(slot_of(s), th.args.latitude,
                                                    th.args.longitude, th.args.now)
                  [] th.op = "prove_country"
                       -> prove_country(slot_of(s), th.args,
                                        IF is_some(th.pending) THEN unwrap(th.pending)
                                                               ELSE "unused")
                  [] th.op = "prove_email_domain"
                       -> prove_email_domain(slot_of(s), th.args.domain,
                                             th.args.dkim_signature, th.args.auth_results,
                                             th.args.now, th.args.nonce_bytes)
       IN /\ threads' = finish(t, "returned", r)
          /\ mutex' = [mutex EXCEPT ![s] = drop_guard(@, FALSE)]
    /\ UNCHANGED ghost
    /\ SlotsUntouched /\ HostFrame

\* the rest of a verify_* call under the lock
RunVerifier(t) ==
    /\ threads[t].pc = "held"
    /\ threads[t].op \in {"verify_country_proof", "verify_email_proof"}
    /\ LET th == threads[t]
           s == th.slot
           r == IF th.op = "verify_country_proof"
                THEN verify_country_proof(slot_of(s), th.args.proof_hex,
                                          th.args.inputs_hex[1])
                ELSE verify_email_proof(slot_of(s), th.args.proof_hex,
                                        th.args.inputs_hex[1], th.args.inputs_hex[2])
       IN /\ threads' = finish(t, "returned", r)
          /\ mutex' = [mutex EXCEPT ![s] = drop_guard(@, FALSE)]
    /\ UNCHANGED ghost
    /\ SlotsUntouched /\ HostFrame

\* what the host hands to the verify_* calls: a proof of another session with
\* the public inputs it was made for, and a string that does not decode
VerifyArgs(s) ==
    IF s = "country"
    THEN {<< proof_hex(SessionCountryResult), << proved_input_hex(SessionCountryResult, 1) >> >>,
          << NotHex, << SessionCountryResult.public_input >> >>}
    ELSE {<< proof_hex(SessionEmailResult),
             << SessionEmailResult.domain_hash, SessionEmailResult.commitment >> >>}

HostNext ==
    \E t \in Threads :
        \/ \E s \in Slots : CallInit(t, s)
        \/ \E s \in Slots : CallIsReady(t, s)
        \/ CallProveCountryFromCoords(t, Coords(Deg(37, 774900), -Deg(122, 419400)), "t1")
        \/ \E country_code \in {<< "u", "s" >>, << "X", "X" >>} :
               CallProveCountry(t, country_code)
        \/ CallProveEmailDomain(t, << "a", ".", "i", "o" >>, << >>, DKIM_PASS, "t1", "n1")
        \/ \E s \in Slots : \E a \in VerifyArgs(s) : CallVerify(t, s, a[1], a[2])
        \/ AcquireLock(t)
        \/ \E setup_ok \in BOOLEAN : RunSetup(t, setup_ok)
        \/ StoreKeys(t)
        \/ AnswerReady(t)
        \/ \E drawn \in {Some("r1"), None} : DrawSeed(t, drawn)
        \/ RunProver(t)
        \/ RunVerifier(t)

HostInit == Init /\ leaves = << >>

HostSpec == HostInit /\ [][HostNext]_vars

\* ------------------------------------------- properties of the singletons
InitOps == {"init_country_prover", "init_email_prover"}
ReadyOps == {"is_prover_ready", "is_email_prover_ready"}
VerifyOps == {"verify_country_proof", "verify_email_proof"}

\* thread t is back from a call of one of the operations ops
back_from(t, ops) == threads[t].pc = "idle" /\ threads[t].op \in ops

\* the slot's value after a setup that succeeded: pk, vk and pvk of one setup
populated(s) ==
    IF s = "country" THEN init_country_prover(None, TRUE).state
                     ELSE init_email_prover(None, TRUE).state

\* C22: setup and prove failures do not poison a singleton: a slot is
\* populated exactly when an init stored keys into it, so a failed init leaves
\* it empty; no failure leaves the slot's mutex poisoned; and no later call on
\* the slot ends in the panic of a poisoned lock instead of returning as it
\* would have without the failed call.
C22_FailuresDoNotPoison ==
    \A s \in Slots :
        /\ is_some(slot_of(s)) <=> ghost[s].stored > 0
        /\ ~mutex[s].poisoned
        /\ \A t \in Threads :
               threads[t].slot = s /\ threads[t].pc = "idle"
                   => ~(threads[t].status = "panicked" /\ threads[t].value = "PoisonError")

\* C21: verification at the binding layer never panics and never reports an
\* error: every verify_country_proof and verify_email_proof call returns a
\* boolean, false for strings that do not decode and for an uninitialized
\* prover, true only on a populated slot.
C21_VerifyNeverPanics ==
    \A t \in Threads :
        back_from(t, VerifyOps)
            => /\ threads[t].status = "returned"
               /\ threads[t].value \in BOOLEAN
               /\ threads[t].value => is_some(slot_of(threads[t].slot))

\* C25: keys are produced once and are immutable: a slot is populated by one
\* store of its own init and never cleared or replaced afterwards, and a
\* readiness call begun after readiness has answered true answers true.
C25_KeysImmutable ==
    /\ \A s \in Slots :
           /\ ghost[s].stored <= 1
           /\ is_some(slot_of(s)) <=> ghost[s].stored = 1
           /\ ghost[s].ready_seen => slot_of(s) = populated(s)
    /\ \A t \in Threads :
           back_from(t, ReadyOps) /\ threads[t].populated_before
               => threads[t].status = "returned" /\ threads[t].value = TRUE

\* C15: initialization is idempotent also under threads: an init called on a
\* populated slot returns true, and the keys stored by the first setup are
\* still the slot's keys.
C15_InitIdempotentUnderThreads ==
    \A t \in Threads :
        back_from(t, InitOps) /\ threads[t].populated_before
            => /\ threads[t].status = "returned" /\ threads[t].value = TRUE
               /\ slot_of(threads[t].slot) = populated(threads[t].slot)
               /\ ghost[threads[t].slot].stored = 1

\* threads inside the part of a call that runs under the lock of slot s
in_critical_section(s) ==
    {t \in Threads : threads[t].slot = s /\ threads[t].pc \in {"held", "store"}}

\* the lock of each slot excludes: whoever is inside holds the guard, alone,
\* and what it reads in the slot is None or the keys of one whole setup
MutexHeldThroughout ==
    \A s \in Slots :
        /\ Cardinality(in_critical_section(s)) <= 1
        /\ \A t \in in_critical_section(s) : mutex[s].holder = Some(t)
        /\ slot_of(s) \in {None, populated(s)}

\* C24 (as first stated): under every interleaving the mutex is held for the
\* whole of init and of the key-using part of prove and verify, the Groth16
\* setup of a slot runs at most once, and the slot is only ever None or fully
\* populated from one setup.
C24_SetupRunsAtMostOnce ==
    /\ MutexHeldThroughout
    /\ \A s \in Slots : ghost[s].setups <= 1

\* C24: under every interleaving the mutex is held for the whole of init and
\* of the key-using part of prove and verify; the Groth16 setup of a slot runs
\* only while the slot is empty and stores keys at most once, a setup that
\* failed being free to run again; and the slot is only ever None or fully
\* populated from one setup.
C24_SetupStoresAtMostOnce ==
    /\ MutexHeldThroughout
    /\ \A s \in Slots :
           /\ ghost[s].stored <= 1
           /\ ghost[s].stored <= ghost[s].setups
           /\ is_some(slot_of(s)) <=> ghost[s].stored = 1
           /\ \A t \in Threads :
                  threads[t].slot = s /\ threads[t].pc = "store" => ~is_some(slot_of(s))

\* a second setup of a slot whose first failed is about to store its keys
\* while another thread waits for the lock
C24_Witness ==
    \E s \in Slots : \E t, u \in Threads :
        /\ ghost[s].setups = 2
        /\ threads[t].slot = s /\ threads[t].pc = "store"
        /\ threads[u].slot = s /\ threads[u].pc = "lock"

====
